---------------------------- MODULE Spec2Model ----------------------------
(***************************************************************************)
(* Strategy execution engine of live-engine                                *)
(* (src/src/lib/strategy/executor.ts).                                     *)
(*                                                                         *)
(* One call of executeStrategy(typescriptCode, context) on the Node event  *)
(* loop: transpile, strip module syntax, splice the code in front of the   *)
(* entry-point dispatcher, call the resulting function synchronously, race *)
(* its value against a 5000 ms timer, validate what comes back.            *)
(*                                                                         *)
(* The strategy source is the input.  It is described by what it does when *)
(* it is compiled and run: whether it transpiles, whether the wrapped code *)
(* parses, what its top-level statements do before the dispatcher is       *)
(* reached, which entry-point names are functions and what the entry point *)
(* does when called.                                                       *)
(*                                                                         *)
(* Around it: sanitizeForExecution on texts, getCurrentPosition on a       *)
(* trades table, runStrategy (one evaluation cycle against the database)   *)
(* and the cron handler of src/src/app/api/broker/route.ts, which runs     *)
(* every running strategy and executes the trade of a signal.  Each has    *)
(* its own specification over the same variables.                          *)
(***************************************************************************)
EXTENDS Integers, Sequences, FiniteSets, TLC

VARIABLES
    pc,          \* position of executeStrategy: start, transpiled, spinning, racing, returned
    src,         \* the strategy source of this call (its observable behaviour)
    context,     \* the StrategyContext argument, as the caller built it
    contextObj,  \* the context object as it is now: the strategy holds a reference
    globals,     \* the global object of the process the code runs in
    now,         \* wall clock of the event loop, ms
    calls,       \* entry points called by the dispatcher: <<[name, arg]>>
    inv,         \* the promise Promise.resolve(strategyFn(context))
    timer,       \* the setTimeout of the timeout guard
    race,        \* the promise returned by Promise.race
    order,       \* which of the two raced promises settled, in the order they did
    caught,      \* the value bound to `error` in the catch block, if it ran
    awaited,     \* the value the await of the race produced, if it fulfilled
    result,      \* the StrategyResult returned to the caller
    returnedAt,  \* clock value at which the call returned
    sanPc,       \* sanitizeForExecution applied: input, once, twice
    sanText,     \* the text given to sanitizeForExecution
    sanOut,      \* sanitizeForExecution(sanText)
    sanOut2,     \* sanitizeForExecution(sanOut)
    posPc,       \* getCurrentPosition on its own: query, done
    posTrades,   \* the trades table it queries
    posAnswered, \* whether the trades query answered with rows
    posResult,   \* the Position it returned, or null
    runPc,       \* position of runStrategy: start, fetch, noData, position, execute, log, done
    strategy,    \* the strategy row given to runStrategy
    db,          \* the database
    faults,      \* how many more database requests may fail
    candles,     \* runStrategy's candles
    currentPrice,\* runStrategy's currentPrice
    runResult,   \* the StrategyResult runStrategy returned
    cronPc,      \* position of the cron handler: start, loop, run, portfolio, price, insert, done
    catalog,     \* the strategies table
    fetched,     \* the handler's strategies: the running strategies it fetched
    queue,       \* the running strategies the loop has still to process
    results,     \* the handler's results array
    tradeSteps,  \* the calls of executeTrade of this cron run
    tradePrice,  \* executeTrade's currentPrice
    response,    \* the handler's answer
    deploymentCounter, \* execution store: the number of the next deployment id
    orderCounter,      \* execution store: the number of the next order id
    deployments,       \* execution store: Map of deployments, in insertion order
    orders,            \* execution store: Map of orders, in insertion order
    issued,            \* the records the creating calls returned since the last reset
    storeCall,         \* the last call of the execution store and what it returned
    patchPc,           \* position of the PATCH handler: idle, start, update, done
    patchRequest,      \* the body of the PATCH request
    patchResponse,     \* the status of the PATCH handler's answer, 0 before it
    client,            \* binanceWSClient: the singleton, once constructed
    ws,                \* the client's ws: the place of its socket in sockets, 0 for null
    sockets,           \* every WebSocket the client created
    heartbeatInterval, \* the client's heartbeatInterval: a timer's name, 0 for null
    heartbeats,        \* the heartbeat timers that are set
    reconnects,        \* how many reconnect timers are pending
    disconnected,      \* disconnect() was called and connect() not requested since
    pinged,            \* the sockets a heartbeat pinged
    wsAnswer,          \* the status of the route's last answer, 0 before it
    paperBalance,      \* the balance column of the portfolio
    paperStart,        \* the balance the portfolio had before the requests
    paperLedger,       \* the rows the requests inserted into trades
    paperRequests,     \* the execute_trade requests: position, locals and answer
    paperFaults,       \* how many more database requests of the handler may fail
    paperTick,         \* the cached price of the asset, 0 for none
    paperSchema        \* which trades table the database has

execVars == <<pc, src, context, contextObj, globals, now, calls, inv, timer, race, order, caught, awaited,
              result, returnedAt>>

sanVars == <<sanPc, sanText, sanOut, sanOut2>>

posVars == <<posPc, posTrades, posAnswered, posResult>>

runVars == <<runPc, strategy, db, faults, candles, currentPrice, runResult>>

cronVars == <<cronPc, catalog, fetched, queue, results, tradeSteps, tradePrice, response>>

storeVars == <<deploymentCounter, orderCounter, deployments, orders, issued, storeCall>>

\* The subsystems that the strategy engine never touches.
patchVars == <<patchPc, patchRequest, patchResponse>>

wsVars == <<client, ws, sockets, heartbeatInterval, heartbeats, reconnects, disconnected,
           pinged, wsAnswer>>

paperVars == <<paperBalance, paperStart, paperLedger, paperRequests, paperFaults, paperTick,
              paperSchema>>

restVars == <<storeVars, patchVars, wsVars, paperVars>>

vars == <<execVars, sanVars, posVars, runVars, cronVars, restVars>>

---------------------------------------------------------------------------
(* Program constants and bounds *)

TIMEOUT_MS == 5000

DiagnosticLimit == 3

MaxDiagnostics == 4

Epsilon == 100

---------------------------------------------------------------------------
(* JavaScript values.  t is the value's typeof; null is the object with    *)
(* isNull; s and n carry a string's text and a number's value; o holds the *)
(* StrategyResult fields of an object.                                     *)

Prim(t, s, n) == [t |-> t, s |-> s, n |-> n]

PUndef == Prim("undefined", "", 0)

PStr(s) == Prim("string", s, 0)

PNum(n) == Prim("number", "", n)

NoFields ==
    [signal |-> PUndef, amount |-> PUndef, reason |-> PUndef,
     indicators |-> PUndef, takeProfit |-> PUndef, stopLoss |-> PUndef]

JS(t, isNull, s, n, o) == [t |-> t, isNull |-> isNull, s |-> s, n |-> n, o |-> o]

Undefined == JS("undefined", FALSE, "", 0, NoFields)

Null == JS("object", TRUE, "", 0, NoFields)

Str(s) == JS("string", FALSE, s, 0, NoFields)

Num(n) == JS("number", FALSE, "", n, NoFields)

Bool(b) == JS("boolean", FALSE, "", IF b THEN 1 ELSE 0, NoFields)

FunctionValue == JS("function", FALSE, "function () { }", 0, NoFields)

Obj(fields) == JS("object", FALSE, "", 0, fields)

ArrayValue == JS("object", FALSE, "array", 0, NoFields)

\* !v
Falsy(v) ==
    \/ v.t = "undefined"
    \/ v.isNull
    \/ v.t = "boolean" /\ v.n = 0
    \/ v.t = "number" /\ v.n = 0
    \/ v.t = "string" /\ v.s = ""

Digit(d) ==
    CASE d = 0 -> "0" [] d = 1 -> "1" [] d = 2 -> "2" [] d = 3 -> "3"
      [] d = 4 -> "4" [] d = 5 -> "5" [] d = 6 -> "6" [] d = 7 -> "7"
      [] d = 8 -> "8" [] OTHER -> "9"

RECURSIVE NatToString(_)
NatToString(n) ==
    IF n < 10 THEN Digit(n) ELSE NatToString(n \div 10) \o Digit(n % 10)

\* String(v)
JSString(v) ==
    CASE v.t = "string" -> v.s
      [] v.t = "undefined" -> "undefined"
      [] v.t = "boolean" -> (IF v.n = 1 THEN "true" ELSE "false")
      [] v.t = "number" -> (IF v.n < 0 THEN "-" \o NatToString(-v.n) ELSE NatToString(v.n))
      [] v.t = "function" -> v.s
      [] v.isNull -> "null"
      [] OTHER -> "[object Object]"

(* Thrown values: an Error instance with its message, or any other value.  *)
Thrown(isError, message, val) ==
    [thrown |-> TRUE, isError |-> isError, message |-> message, val |-> val]

NoError == [thrown |-> FALSE, isError |-> FALSE, message |-> "", val |-> Undefined]

ErrorOf(message) == Thrown(TRUE, message, Undefined)

---------------------------------------------------------------------------
(* Numbers of the trading data.  DECIMAL columns arrive as decimal text    *)
(* and go through Number.parseFloat; amounts are whole numbers of the      *)
(* smallest unit.  Quotients are kept exact as fractions num/den.          *)

Frac(num, den) == [num |-> num, den |-> den]

FromInt(n) == Frac(n, 1)

FSub(a, b) == Frac(a.num * b.den - b.num * a.den, a.den * b.den)

FMul(a, b) == Frac(a.num * b.num, a.den * b.den)

FDiv(a, b) == Frac(a.num * b.den, a.den * b.num)

\* a = b for fractions with non-zero denominators
FEq(a, b) == a.num * b.den = b.num * a.den

RECURSIVE DecimalText(_)
DecimalText(n) ==
    IF n < 0 THEN <<"-">> \o DecimalText(-n)
    ELSE IF n < 10 THEN <<Digit(n)>> ELSE DecimalText(n \div 10) \o <<Digit(n % 10)>>

DigitValue(c) ==
    CASE c = "0" -> 0 [] c = "1" -> 1 [] c = "2" -> 2 [] c = "3" -> 3
      [] c = "4" -> 4 [] c = "5" -> 5 [] c = "6" -> 6 [] c = "7" -> 7
      [] c = "8" -> 8 [] OTHER -> 9

\* Number.parseFloat on the text of a whole number
RECURSIVE ParseFloat(_)
ParseFloat(text) ==
    IF text[1] = "-" THEN -ParseFloat(Tail(text))
    ELSE IF Len(text) = 1 THEN DigitValue(text[1])
    ELSE 10 * ParseFloat(SubSeq(text, 1, Len(text) - 1)) + DigitValue(text[Len(text)])

Position(asset, quantity, entry_price, current_price, pnl, pnl_percentage) ==
    [isNull |-> FALSE, asset |-> asset, quantity |-> quantity,
     entry_price |-> entry_price, current_price |-> current_price,
     pnl |-> pnl, pnl_percentage |-> pnl_percentage]

NullPosition ==
    [isNull |-> TRUE, asset |-> "", quantity |-> 0, entry_price |-> FromInt(0),
     current_price |-> 0, pnl |-> FromInt(0), pnl_percentage |-> FromInt(0)]

\* A candle of the context; open, high, low and volume are carried the
\* same way as close and are left out.
Candle(timestamp, close) == [timestamp |-> timestamp, close |-> close]

StrategyContext(candleList, price, position, parameters) ==
    [candles |-> candleList, currentPrice |-> price, position |-> position,
     parameters |-> parameters]

---------------------------------------------------------------------------
(* transpileForExecution and its diagnostics *)

DiagnosticText(i) ==
    CASE i = 1 -> "';' expected."
      [] i = 2 -> "Expression expected."
      [] i = 3 -> "Declaration or statement expected."
      [] OTHER -> "Unexpected token."

Diagnostics(n) == [i \in 1..n |-> DiagnosticText(i)]

RECURSIVE Join(_, _)
Join(msgs, sep) ==
    IF Len(msgs) = 0 THEN ""
    ELSE IF Len(msgs) = 1 THEN msgs[1]
    ELSE msgs[1] \o sep \o Join(Tail(msgs), sep)

Slice(msgs, n) == SubSeq(msgs, 1, IF Len(msgs) < n THEN Len(msgs) ELSE n)

LoadFailure ==
    ErrorOf("TypeScript runtime dependency is required for strategy transpilation. Ensure \"typescript\" is installed in production dependencies. Original error: Cannot find module 'typescript'")

TranspileFailure(diags) ==
    ErrorOf("TypeScript transpilation failed: " \o Join(Slice(diags, DiagnosticLimit), "; "))

SyntaxFailure == ErrorOf("Unexpected token 'export'")

NoEntryPoint ==
    ErrorOf("No valid strategy function found. Define tradingStrategy, evaluate, or strategy function.")

TimeoutFailure == ErrorOf("Strategy execution timeout")

---------------------------------------------------------------------------
(* Inputs: values a strategy can return or throw, and strategy sources *)

Signal(sig) == [NoFields EXCEPT !.signal = sig]

FullBuy ==
    [signal |-> PStr("buy"), amount |-> PNum(1), reason |-> PStr("RSI oversold"),
     indicators |-> Prim("object", "rsi", 28), takeProfit |-> PNum(110),
     stopLoss |-> PNum(95)]

Values ==
    { Undefined, Null, Str("buy"), Str(""), Num(0), Num(7), Bool(TRUE), Bool(FALSE),
      FunctionValue, ArrayValue,
      Obj(NoFields),
      Obj(Signal(PStr("moon"))),
      Obj(Signal(PStr("BUY"))),
      Obj(Signal(PNum(1))),
      Obj(FullBuy),
      Obj([Signal(PStr("sell")) EXCEPT !.amount = PNum(2)]),
      Obj([Signal(PStr("hold")) EXCEPT !.reason = PStr("waiting")]) }

ThrownValues ==
    { ErrorOf("boom"), ErrorOf(""), Thrown(FALSE, "", Str("boom")),
      Thrown(FALSE, "", Obj(Signal(PStr("buy")))), Thrown(FALSE, "", Num(7)) }

EntryNames == {"tradingStrategy", "evaluate", "strategy"}

BusyTimes == {0, TIMEOUT_MS + 1000}

Delays == {0, TIMEOUT_MS - 1000, TIMEOUT_MS, TIMEOUT_MS + 1000}

(* What running a piece of strategy code does: it blocks the thread for    *)
(* busy ms and then returns value, throws err, or returns a promise that   *)
(* settles (resolve/reject) delay ms later or never; or it spins forever.  *)
Beh(kind, busy, value, err, settle, delay) ==
    [kind |-> kind, busy |-> busy, value |-> value, err |-> err,
     settle |-> settle, delay |-> delay]

Returns(busy, v) == Beh("return", busy, v, NoError, "none", 0)

Throws(busy, e) == Beh("throw", busy, Undefined, e, "none", 0)

Spins == Beh("spin", 0, Undefined, NoError, "none", 0)

FallsThrough == Beh("normal", 0, Undefined, NoError, "none", 0)

Behaviours ==
    {Returns(b, v) : b \in BusyTimes, v \in Values}
    \cup {Throws(b, e) : b \in BusyTimes, e \in ThrownValues}
    \cup {Spins}
    \cup {Beh("promise", b, v, NoError, "resolve", d) :
              b \in BusyTimes, v \in Values, d \in Delays}
    \cup {Beh("promise", 0, Undefined, e, "reject", d) : e \in ThrownValues, d \in Delays}
    \cup {Beh("promise", b, Undefined, NoError, "never", 0) : b \in BusyTimes}

TopLevels ==
    {Returns(0, v) : v \in Values} \cup {Throws(0, e) : e \in ThrownValues} \cup {Spins}

(* What the entry point does besides computing its result: nothing, or   *)
(* it writes to the object it was given (mutate), assigns a function to a  *)
(* property of globalThis (plant), or reads process.env (leak).            *)
Effects == {"none", "mutate", "plant", "leak"}

Source(tsLoads, diags, parses, top, defs, beh) ==
    [tsLoads |-> tsLoads, diags |-> diags, parses |-> parses, top |-> top,
     defs |-> defs, beh |-> beh, effect |-> "none"]

WithEffect(s, effect) == [s EXCEPT !.effect = effect]

EffectSources ==
    {WithEffect(Source(TRUE, <<>>, TRUE, FallsThrough, {"evaluate"}, Returns(0, v)), f) :
        v \in {Obj(FullBuy), Obj([Signal(PStr("hold")) EXCEPT !.reason = PStr("waiting")])},
        f \in Effects \ {"none"}}

Sources ==
    {Source(FALSE, <<>>, TRUE, FallsThrough, {}, Spins)}
    \cup {Source(TRUE, Diagnostics(n), TRUE, FallsThrough, {}, Spins) : n \in 1..MaxDiagnostics}
    \cup {Source(TRUE, <<>>, FALSE, FallsThrough, d, Spins) : d \in SUBSET EntryNames}
    \cup {Source(TRUE, <<>>, TRUE, t, d, Spins) : t \in TopLevels, d \in SUBSET EntryNames}
    \cup {Source(TRUE, <<>>, TRUE, FallsThrough, d, b) : d \in SUBSET EntryNames, b \in Behaviours}
    \cup EffectSources

Contexts ==
    { StrategyContext(<<Candle(1, 100), Candle(2, 105)>>, 105, NullPosition, "{}"),
      StrategyContext(<<Candle(1, 90)>>, 90,
                      Position("BTCUSDT", 2, FromInt(100), 90, FromInt(-20), FromInt(-10)),
                      "{\"period\":14}") }

---------------------------------------------------------------------------
(* executeStrategy: the pure parts *)

HoldResult(reason) ==
    Obj([NoFields EXCEPT !.signal = PStr("hold"), !.reason = PStr(reason)])

ValidSignals == {PStr("buy"), PStr("sell"), PStr("hold")}

ValidateResult_NoSignalCheck(v) ==
    IF Falsy(v) \/ v.t # "object" THEN HoldResult("Invalid strategy result")
    ELSE v

ValidateResult_TruthyOnly(v) ==
    IF Falsy(v) THEN HoldResult("Invalid strategy result")
    ELSE IF v.o.signal \notin ValidSignals THEN HoldResult("Invalid signal value")
    ELSE v

ValidateResult_AnyStringSignal(v) ==
    IF Falsy(v) \/ v.t # "object" THEN HoldResult("Invalid strategy result")
    ELSE IF v.o.signal.t # "string" THEN HoldResult("Invalid signal value")
    ELSE v

ValidateResult_Rebuild(v) ==
    IF Falsy(v) \/ v.t # "object" THEN HoldResult("Invalid strategy result")
    ELSE IF v.o.signal \notin ValidSignals THEN HoldResult("Invalid signal value")
    ELSE Obj([NoFields EXCEPT !.signal = v.o.signal, !.reason = v.o.reason])

\* The result validation after the await.
ValidateResult(v) ==
    IF Falsy(v) \/ v.t # "object" THEN HoldResult("Invalid strategy result")
    ELSE IF v.o.signal \notin ValidSignals THEN HoldResult("Invalid signal value")
    ELSE v

\* error instanceof Error ? error.message : String(error)
ErrorMessage(e) == IF e.isError THEN e.message ELSE JSString(e.val)

CatchResult_RawMessage(e) == HoldResult(ErrorMessage(e))

\* The catch block.
CatchResult(e) == HoldResult("Execution error: " \o ErrorMessage(e))

Dispatch_EvaluateFirst(defs) ==
    IF "evaluate" \in defs THEN "evaluate"
    ELSE IF "tradingStrategy" \in defs THEN "tradingStrategy"
    ELSE IF "strategy" \in defs THEN "strategy"
    ELSE "none"

\* The dispatcher appended to the strategy code: the first of the three
\* names whose typeof is 'function'.
Dispatch(defs) ==
    IF "tradingStrategy" \in defs THEN "tradingStrategy"
    ELSE IF "evaluate" \in defs THEN "evaluate"
    ELSE IF "strategy" \in defs THEN "strategy"
    ELSE "none"

(* The code built by new Function runs in the global scope of the host    *)
(* process: it sees globalThis and process.env, and it is handed the very  *)
(* object the caller built.                                                *)
ServiceRoleKey == "service-role-key"

FreshGlobals == [planted |-> {}, env |-> ServiceRoleKey]

\* globalThis.evaluate = function () { return { signal: 'buy', ... } }
Plant(g) == [g EXCEPT !.planted = @ \cup {"evaluate"}]

PlantedBehaviour == Returns(0, Obj(FullBuy))

\* ... reason: process.env.SUPABASE_SERVICE_ROLE_KEY
ReadEnv(b, g) == [b EXCEPT !.value = Obj([@.o EXCEPT !.reason = PStr(g.env)])]

\* context.candles.length = 0; context.currentPrice = 0;
\* if (context.position) { context.position.quantity = 0; context.position.pnl = 0 }
MutateContext(ctx) ==
    [ctx EXCEPT !.candles = <<>>,
                !.currentPrice = 0,
                !.position = IF @.isNull THEN @
                             ELSE [@ EXCEPT !.quantity = 0, !.pnl = FromInt(0)]]

\* strategyFn(context): the strategy's top-level statements run first, then
\* the dispatcher calls the entry point.
\* The function's own declarations shadow the properties of globalThis.
RunBody(s, ctx, g) ==
    LET name == Dispatch(s.defs \cup g.planted)
        call == <<[name |-> name, arg |-> ctx]>>
    IN  IF s.top.kind # "normal"
            THEN [beh |-> s.top, calls |-> <<>>, obj |-> ctx, globals |-> g]
        ELSE IF name = "none"
            THEN [beh |-> Throws(0, NoEntryPoint), calls |-> <<>>, obj |-> ctx,
                  globals |-> g]
        ELSE IF name \notin s.defs
            THEN [beh |-> PlantedBehaviour, calls |-> call, obj |-> ctx, globals |-> g]
        ELSE [beh |-> IF s.effect = "leak" THEN ReadEnv(s.beh, g) ELSE s.beh,
              calls |-> call,
              obj |-> IF s.effect = "mutate" THEN MutateContext(ctx) ELSE ctx,
              globals |-> IF s.effect = "plant" THEN Plant(g) ELSE g]

(* Promises.  at is the clock value at which a pending promise settles;    *)
(* settles is FALSE for a promise that stays pending for ever.             *)
Promise(state, value, err, settles, at) ==
    [state |-> state, value |-> value, err |-> err, settles |-> settles, at |-> at]

NoPromise == Promise("none", Undefined, NoError, FALSE, 0)

Pending == Promise("pending", Undefined, NoError, FALSE, 0)

Fulfilled(v) == Promise("fulfilled", v, NoError, FALSE, 0)

Rejected(e) == Promise("rejected", Undefined, e, FALSE, 0)

\* Promise.resolve(x) at clock value t, x being what the body returned.
PromiseResolve(b, t) ==
    IF b.kind = "return" THEN Fulfilled(b.value)
    ELSE IF b.settle = "never" THEN Promise("pending", b.value, b.err, FALSE, 0)
    ELSE Promise("pending", b.value, b.err, TRUE, t + b.delay)

\* A promise settles once: later resolutions are ignored.
Settle(p, outcome) == IF p.state = "pending" THEN outcome ELSE p

NoTimer == [state |-> "none", at |-> 0]

ArmTimer_Forgotten(t) == NoTimer

\* setTimeout(() => reject(...), 5000) at clock value t.
ArmTimer(t) == [state |-> "armed", at |-> t + TIMEOUT_MS]

Max(a, b) == IF a < b THEN b ELSE a

---------------------------------------------------------------------------
(* executeStrategy: the steps *)

ExecInit ==
    /\ pc = "start"
    /\ src \in Sources
    /\ context \in Contexts
    /\ contextObj = context
    /\ globals = FreshGlobals
    /\ now = 0
    /\ calls = <<>>
    /\ inv = NoPromise
    /\ timer = NoTimer
    /\ race = NoPromise
    /\ order = <<>>
    /\ caught = NoError
    /\ awaited = Undefined
    /\ result = Undefined
    /\ returnedAt = 0

\* The catch block runs with e and the call returns.
Catch(e) ==
    /\ caught' = e
    /\ result' = CatchResult(e)
    /\ returnedAt' = now'
    /\ pc' = "returned"

\* await transpileForExecution(typescriptCode)
Transpile ==
    /\ pc = "start"
    /\ now' = now
    /\ IF ~src.tsLoads THEN Catch(LoadFailure)
       ELSE IF Len(src.diags) > 0 THEN Catch(TranspileFailure(src.diags))
       ELSE /\ pc' = "transpiled"
            /\ UNCHANGED <<caught, result, returnedAt>>
    /\ UNCHANGED <<src, context, contextObj, globals, calls, inv, timer, race, order, awaited>>

\* new Function('context', wrappedCode) throws a SyntaxError.
BuildFails ==
    /\ pc = "transpiled"
    /\ ~src.parses
    /\ now' = now
    /\ Catch(SyntaxFailure)
    /\ UNCHANGED <<src, context, contextObj, globals, calls, inv, timer, race, order, awaited>>

\* strategyFn(context) never returns: the thread stays in the strategy code.
InvokeSpins ==
    /\ pc = "transpiled"
    /\ src.parses
    /\ RunBody(src, contextObj, globals).beh.kind = "spin"
    /\ pc' = "spinning"
    /\ calls' = RunBody(src, contextObj, globals).calls
    /\ contextObj' = RunBody(src, contextObj, globals).obj
    /\ globals' = RunBody(src, contextObj, globals).globals
    /\ UNCHANGED <<src, context, now, inv, timer, race, order, caught, awaited, result, returnedAt>>

\* strategyFn(context) throws, before the timer exists.
InvokeThrows ==
    /\ pc = "transpiled"
    /\ src.parses
    /\ RunBody(src, contextObj, globals).beh.kind = "throw"
    /\ now' = now + RunBody(src, contextObj, globals).beh.busy
    /\ calls' = RunBody(src, contextObj, globals).calls
    /\ contextObj' = RunBody(src, contextObj, globals).obj
    /\ globals' = RunBody(src, contextObj, globals).globals
    /\ Catch(RunBody(src, contextObj, globals).beh.err)
    /\ UNCHANGED <<src, context, inv, timer, race, order, awaited>>

\* strategyFn(context) returns a value or a promise; then the timer is set
\* and the race is awaited.
InvokeReturns ==
    /\ pc = "transpiled"
    /\ src.parses
    /\ RunBody(src, contextObj, globals).beh.kind \in {"return", "promise"}
    /\ now' = now + RunBody(src, contextObj, globals).beh.busy
    /\ calls' = RunBody(src, contextObj, globals).calls
    /\ contextObj' = RunBody(src, contextObj, globals).obj
    /\ globals' = RunBody(src, contextObj, globals).globals
    /\ inv' = PromiseResolve(RunBody(src, contextObj, globals).beh, now')
    /\ timer' = ArmTimer(now')
    /\ race' = Settle(Pending, inv')
    /\ order' = IF inv'.state = "pending" THEN <<>> ELSE <<"invocation">>
    /\ pc' = "racing"
    /\ UNCHANGED <<src, context, caught, awaited, result, returnedAt>>

\* The continuation of the await is queued: no timer or I/O callback runs
\* before it.
MicrotaskPending == pc = "racing" /\ race.state # "pending"

\* The strategy's promise settles (a callback of the event loop at inv.at).
InvocationSettles ==
    /\ inv.state = "pending"
    /\ inv.settles
    /\ ~MicrotaskPending
    /\ timer.state = "armed" => inv.at <= timer.at
    /\ now' = Max(now, inv.at)
    /\ inv' = IF inv.err.thrown THEN Rejected(inv.err) ELSE Fulfilled(inv.value)
    /\ race' = Settle(race, inv')
    /\ order' = Append(order, "invocation")
    /\ UNCHANGED <<pc, src, context, contextObj, globals, calls, timer, caught, awaited, result, returnedAt>>

\* The timeout timer fires and rejects its promise.
TimerFires ==
    /\ timer.state = "armed"
    /\ ~MicrotaskPending
    /\ (inv.state = "pending" /\ inv.settles) => timer.at <= inv.at
    /\ now' = Max(now, timer.at)
    /\ timer' = [timer EXCEPT !.state = "fired"]
    /\ race' = Settle(race, Rejected(TimeoutFailure))
    /\ order' = Append(order, "timer")
    /\ UNCHANGED <<pc, src, context, contextObj, globals, calls, inv, caught, awaited, result, returnedAt>>

\* The await resumes with the race's outcome: validation, or the catch block.
Resume ==
    /\ MicrotaskPending
    /\ now' = now
    /\ IF race.state = "fulfilled"
       THEN /\ awaited' = race.value
            /\ result' = ValidateResult(race.value)
            /\ returnedAt' = now
            /\ pc' = "returned"
            /\ UNCHANGED caught
       ELSE /\ Catch(race.err)
            /\ UNCHANGED awaited
    /\ UNCHANGED <<src, context, contextObj, globals, calls, inv, timer, race, order>>

ExecStep ==
    \/ Transpile
    \/ BuildFails
    \/ InvokeSpins
    \/ InvokeThrows
    \/ InvokeReturns
    \/ InvocationSettles
    \/ TimerFires
    \/ Resume

\* No call of executeStrategy is in progress.
ExecIdle ==
    /\ pc = "idle"
    /\ src = Source(TRUE, <<>>, TRUE, FallsThrough, {}, Spins)
    /\ context = StrategyContext(<<>>, 0, NullPosition, "{}")
    /\ contextObj = context
    /\ globals = FreshGlobals
    /\ now = 0
    /\ calls = <<>>
    /\ inv = NoPromise
    /\ timer = NoTimer
    /\ race = NoPromise
    /\ order = <<>>
    /\ caught = NoError
    /\ awaited = Undefined
    /\ result = Undefined
    /\ returnedAt = 0

---------------------------------------------------------------------------
(* sanitizeForExecution.  Texts are sequences of characters. *)

cImport == <<"i", "m", "p", "o", "r", "t">>

cExport == <<"e", "x", "p", "o", "r", "t">>

cFunction == <<"f", "u", "n", "c", "t", "i", "o", "n">>

cAsync == <<"a", "s", "y", "n", "c">>

cClass == <<"c", "l", "a", "s", "s">>

cConst == <<"c", "o", "n", "s", "t">>

cLet == <<"l", "e", "t">>

cVar == <<"v", "a", "r">>

cDefault == <<"d", "e", "f", "a", "u", "l", "t">>

cSpace == <<" ">>

cStripped ==
    <<"/", "/", " ", "[", "s", "t", "r", "i", "p", "p", "e", "d", "]", " ">>

NewLine == "\n"

\* The characters String.prototype.trimStart removes and \s matches.
IsSpace(c) == c \in {" ", "\t"}

StartsWith(s, p) == Len(s) >= Len(p) /\ SubSeq(s, 1, Len(p)) = p

RECURSIVE TrimStart(_)
TrimStart(s) ==
    IF Len(s) > 0 /\ IsSpace(s[1]) THEN TrimStart(Tail(s)) ELSE s

\* The position of the first occurrence of p in s from position i on; 0 if none.
RECURSIVE IndexFrom(_, _, _)
IndexFrom(s, p, i) ==
    IF i + Len(p) - 1 > Len(s) THEN 0
    ELSE IF SubSeq(s, i, i + Len(p) - 1) = p THEN i
    ELSE IndexFrom(s, p, i + 1)

\* String.prototype.replace(p, r) with a string pattern: the first occurrence.
Replace(s, p, r) ==
    LET i == IndexFrom(s, p, 1)
    IN  IF i = 0 THEN s
        ELSE SubSeq(s, 1, i - 1) \o r \o SubSeq(s, i + Len(p), Len(s))

\* text.split('\n')
RECURSIVE SplitLines(_, _)
SplitLines(text, line) ==
    IF Len(text) = 0 THEN <<line>>
    ELSE IF text[1] = NewLine THEN <<line>> \o SplitLines(Tail(text), <<>>)
    ELSE SplitLines(Tail(text), Append(line, text[1]))

\* lines.join('\n')
RECURSIVE JoinLines(_)
JoinLines(lines) ==
    IF Len(lines) = 0 THEN <<>>
    ELSE IF Len(lines) = 1 THEN lines[1]
    ELSE lines[1] \o <<NewLine>> \o JoinLines(Tail(lines))

\* /^export\s*\{/.test(s)
MatchesExportBrace(s) ==
    /\ StartsWith(s, cExport)
    /\ StartsWith(TrimStart(SubSeq(s, Len(cExport) + 1, Len(s))), <<"{">>)

\* The callback of .map: one line of the text.
SanitizeLine(line) ==
    LET trimmed == TrimStart(line)
        exportSp == cExport \o cSpace
    IN  IF StartsWith(trimmed, cImport \o cSpace) THEN cStripped \o line
        ELSE IF StartsWith(trimmed, exportSp \o cFunction \o cSpace)
            THEN Replace(line, exportSp \o cFunction \o cSpace, cFunction \o cSpace)
        ELSE IF StartsWith(trimmed, exportSp \o cAsync \o cSpace \o cFunction \o cSpace)
            THEN Replace(line, exportSp \o cAsync \o cSpace \o cFunction \o cSpace,
                         cAsync \o cSpace \o cFunction \o cSpace)
        ELSE IF StartsWith(trimmed, exportSp \o cClass \o cSpace)
            THEN Replace(line, exportSp \o cClass \o cSpace, cClass \o cSpace)
        ELSE IF StartsWith(trimmed, exportSp \o cConst \o cSpace)
            THEN Replace(line, exportSp \o cConst \o cSpace, cConst \o cSpace)
        ELSE IF StartsWith(trimmed, exportSp \o cLet \o cSpace)
            THEN Replace(line, exportSp \o cLet \o cSpace, cLet \o cSpace)
        ELSE IF StartsWith(trimmed, exportSp \o cDefault \o cSpace)
            THEN Replace(line, exportSp \o cDefault \o cSpace, <<>>)
        ELSE IF MatchesExportBrace(trimmed) THEN cStripped \o line
        ELSE line

sanitizeForExecution(code) ==
    LET lines == SplitLines(code, <<>>)
    IN  JoinLines([i \in 1..Len(lines) |-> SanitizeLine(lines[i])])

(* Input texts: lines put together from the pieces the function looks for  *)
(* and pieces it does not, one or more lines to a text.                    *)
MaxPieces == 3

MaxLines == 2

Pieces ==
    { cSpace, <<"\t">>, <<"x">>, <<"{">>, <<"*", " ">>,
      cImport, cImport \o cSpace, cExport, cExport \o cSpace,
      cFunction \o cSpace, cAsync \o cSpace, cClass \o cSpace, cConst \o cSpace,
      cLet \o cSpace, cVar \o cSpace, cDefault \o cSpace }

RECURSIVE LinesOf(_)
LinesOf(n) ==
    IF n = 0 THEN {<<>>}
    ELSE LinesOf(n - 1) \cup {l \o q : l \in LinesOf(n - 1), q \in Pieces}

RECURSIVE TextsOf(_)
TextsOf(n) ==
    IF n = 1 THEN LinesOf(1)
    ELSE {t \o <<NewLine>> \o l : t \in TextsOf(n - 1), l \in LinesOf(1)}

Texts == LinesOf(MaxPieces) \cup UNION {TextsOf(n) : n \in 2..MaxLines}

SanIdle == sanPc = "idle" /\ sanText = <<>> /\ sanOut = <<>> /\ sanOut2 = <<>>

SanInit == sanPc = "input" /\ sanText \in Texts /\ sanOut = <<>> /\ sanOut2 = <<>>

SanitizeOnce ==
    /\ sanPc = "input"
    /\ sanOut' = sanitizeForExecution(sanText)
    /\ sanPc' = "once"
    /\ UNCHANGED <<sanText, sanOut2>>

SanitizeAgain ==
    /\ sanPc = "once"
    /\ sanOut2' = sanitizeForExecution(sanOut)
    /\ sanPc' = "twice"
    /\ UNCHANGED <<sanText, sanOut>>

SanStep == SanitizeOnce \/ SanitizeAgain

---------------------------------------------------------------------------
(* getCurrentPosition: the position of (portfolio, asset) derived from the *)
(* trades table.                                                           *)

\* A row of the trades table; the table is kept in created_at order.
Trade(portfolio_id, asset, status, type, quantity, price) ==
    [portfolio_id |-> portfolio_id, asset |-> asset, status |-> status, type |-> type,
     quantity |-> DecimalText(quantity), price |-> DecimalText(price),
     total |-> DecimalText(quantity * price)]

\* .eq('portfolio_id', ..).eq('asset', ..).eq('status', 'completed')
\* .order('created_at', { ascending: true })
SelectCompletedTrades(table, portfolioId, asset) ==
    SelectSeq(table, LAMBDA t : /\ t.portfolio_id = portfolioId
                                /\ t.asset = asset
                                /\ t.status = "completed")

\* The loop over the trades, with its two accumulators.
RECURSIVE NetPosition(_)
NetPosition(trades) ==
    IF trades = <<>> THEN [quantity |-> 0, totalCost |-> 0]
    ELSE LET acc == NetPosition(SubSeq(trades, 1, Len(trades) - 1))
             trade == trades[Len(trades)]
         IN  IF trade.type = "buy"
             THEN [quantity |-> acc.quantity + ParseFloat(trade.quantity),
                   totalCost |-> acc.totalCost + ParseFloat(trade.total)]
             ELSE [quantity |-> acc.quantity - ParseFloat(trade.quantity),
                   totalCost |-> acc.totalCost - ParseFloat(trade.total)]

getCurrentPosition_ZeroIsOpen(table, portfolioId, asset, answered) ==
    LET trades == SelectCompletedTrades(table, portfolioId, asset)
        net == NetPosition(trades)
    IN  IF ~answered \/ trades = <<>> \/ net.quantity < 0 THEN NullPosition
        ELSE Position(asset, net.quantity, Frac(net.totalCost, net.quantity),
                      0, FromInt(0), FromInt(0))

\* answered is FALSE when the query yields no data (data is null, or the
\* request throws and the catch block returns null).
getCurrentPosition(table, portfolioId, asset, answered) ==
    LET trades == SelectCompletedTrades(table, portfolioId, asset)
        net == NetPosition(trades)
    IN  IF ~answered \/ trades = <<>> \/ net.quantity <= 0 THEN NullPosition
        ELSE Position(asset, net.quantity, Frac(net.totalCost, net.quantity),
                      0, FromInt(0), FromInt(0))

MaxTrades == 2

PortfolioId == "p1"

Asset == "BTCUSDT"

\* Rows of the queried (portfolio, asset) and rows the query must leave out.
TradeRows ==
    {Trade(PortfolioId, Asset, "completed", ty, q, p) :
        ty \in {"buy", "sell"}, q \in {1, 2}, p \in {100, 150, 200}}
    \cup {Trade("p2", Asset, "completed", ty, 1, 100) : ty \in {"buy", "sell"}}
    \cup {Trade(PortfolioId, "ETHUSDT", "completed", ty, 1, 100) : ty \in {"buy", "sell"}}
    \cup {Trade(PortfolioId, Asset, st, ty, 1, 100) :
            st \in {"pending", "failed"}, ty \in {"buy", "sell"}}

RECURSIVE TablesOf(_, _)
TablesOf(rows, n) ==
    IF n = 0 THEN {<<>>}
    ELSE TablesOf(rows, n - 1)
         \cup {Append(t, r) : t \in TablesOf(rows, n - 1), r \in rows}

PosIdle ==
    posPc = "idle" /\ posTrades = <<>> /\ posAnswered = FALSE /\ posResult = NullPosition

PosInit ==
    /\ posPc = "query"
    /\ posTrades \in TablesOf(TradeRows, MaxTrades)
    /\ posAnswered = FALSE
    /\ posResult = NullPosition

DerivePosition ==
    /\ posPc = "query"
    /\ \E answered \in BOOLEAN :
          /\ posAnswered' = answered
          /\ posResult' = getCurrentPosition(posTrades, PortfolioId, Asset, answered)
    /\ posPc' = "done"
    /\ UNCHANGED posTrades

---------------------------------------------------------------------------
(* runStrategy: one evaluation cycle of a strategy against the database.   *)
(* The database holds the market_data rows, the trades table, the          *)
(* strategy_logs rows and, per strategy id, the persisted columns status,  *)
(* error_message and last_run_at.  A request to the database may fail;     *)
(* faults bounds how many do.                                              *)

CandleLimit == 100

MaxFaults == 2

MaxCandles == 2

MaxStrategies == 2

StrategyIdAt(n) == "s" \o NatToString(n)

StrategyIds == {StrategyIdAt(n) : n \in 1..MaxStrategies}

Strategy(id, asset, portfolio_id, status, typescript_code, parameters) ==
    [id |-> id, asset |-> asset, portfolio_id |-> portfolio_id, status |-> status,
     typescript_code |-> typescript_code, parameters |-> parameters]

StrategyRow(status, error_message, last_run_at, last_signal_at) ==
    [status |-> status, error_message |-> error_message, last_run_at |-> last_run_at,
     last_signal_at |-> last_signal_at]

MarketRow(asset, timestamp, close) ==
    [asset |-> asset, timestamp |-> timestamp, close |-> DecimalText(close)]

NoLogData ==
    [signal |-> PUndef, currentPrice |-> 0, indicators |-> PUndef,
     position |-> [isNull |-> TRUE, quantity |-> 0, pnl |-> FromInt(0)]]

LogRow(strategy_id, level, message, data) ==
    [strategy_id |-> strategy_id, level |-> level, message |-> message, data |-> data]

ToLowerCase(text) ==
    CASE text = "BTCUSDT" -> "btcusdt"
      [] text = "ETHUSDT" -> "ethusdt"
      [] OTHER -> text

ToUpperCase(text) ==
    CASE text = "buy" -> "BUY"
      [] text = "sell" -> "SELL"
      [] text = "hold" -> "HOLD"
      [] OTHER -> text

\* !p and `${p}` for a field of a result
PrimFalsy(p) ==
    \/ p.t = "undefined"
    \/ p.t = "string" /\ p.s = ""
    \/ p.t = "number" /\ p.n = 0

PrimString(p) ==
    CASE p.t = "string" -> p.s
      [] p.t = "number" -> (IF p.n < 0 THEN "-" \o NatToString(-p.n) ELSE NatToString(p.n))
      [] p.t = "undefined" -> "undefined"
      [] OTHER -> "[object Object]"

\* .order('timestamp', { ascending: false })
RECURSIVE NewestFirst(_)
NewestFirst(rows) ==
    IF rows = {} THEN <<>>
    ELSE LET newest == CHOOSE r \in rows : \A q \in rows : q.timestamp <= r.timestamp
         IN  <<newest>> \o NewestFirst(rows \ {newest})

\* .limit(limit)
Limit(rows, limit) == SubSeq(rows, 1, IF Len(rows) < limit THEN Len(rows) ELSE limit)

Reverse(rows) == [i \in 1..Len(rows) |-> rows[Len(rows) + 1 - i]]

fetchRecentCandles_NewestFirst(table, asset, limit, answered) ==
    IF ~answered THEN <<>>
    ELSE LET data == Limit(NewestFirst({r \in table : r.asset = ToLowerCase(asset)}), limit)
         IN  [i \in 1..Len(data) |->
                 Candle(data[i].timestamp, ParseFloat(data[i].close))]

\* answered is FALSE when the query yields no data (data is null, or the
\* request throws and the catch block returns []).
fetchRecentCandles(table, asset, limit, answered) ==
    IF ~answered THEN <<>>
    ELSE LET data == Limit(NewestFirst({r \in table : r.asset = ToLowerCase(asset)}), limit)
             chronological == Reverse(data)
         IN  [i \in 1..Len(chronological) |->
                 Candle(chronological[i].timestamp, ParseFloat(chronological[i].close))]

logStrategyEvent_Rethrow(d, strategyId, level, message, data, fails) ==
    [db |-> IF fails THEN d
            ELSE [d EXCEPT !.strategy_logs = Append(@, LogRow(strategyId, level, message, data))],
     thrown |-> fails,
     error |-> IF fails THEN ErrorOf("insert failed") ELSE NoError]

\* The insert is inside try/catch: a failure is printed and dropped.
logStrategyEvent(d, strategyId, level, message, data, fails) ==
    [db |-> IF fails THEN d
            ELSE [d EXCEPT !.strategy_logs = Append(@, LogRow(strategyId, level, message, data))],
     thrown |-> FALSE,
     error |-> NoError]

\* Partial<Strategy>: a field that is absent or undefined is not written.
Fields(setLastRun, last_run_at, setError, error_message) ==
    [setLastRun |-> setLastRun, last_run_at |-> last_run_at,
     setError |-> setError, error_message |-> error_message]

\* .update({ status, ...additionalFields, updated_at }).eq('id', strategyId),
\* inside try/catch
updateStrategyStatus(d, strategyId, status, additionalFields, fails) ==
    IF fails THEN d
    ELSE [d EXCEPT !.strategies[strategyId] =
            [@ EXCEPT !.status = status,
                      !.last_run_at = IF additionalFields.setLastRun
                                      THEN additionalFields.last_run_at ELSE @,
                      !.error_message = IF additionalFields.setError
                                        THEN additionalFields.error_message ELSE @]]

\* position.current_price, position.pnl and position.pnl_percentage
WithPnl(position, price) ==
    IF position.isNull THEN position
    ELSE [position EXCEPT
            !.current_price = price,
            !.pnl = FMul(FSub(FromInt(price), position.entry_price),
                         FromInt(position.quantity)),
            !.pnl_percentage = FMul(FDiv(FSub(FromInt(price), position.entry_price),
                                         position.entry_price),
                                    FromInt(100))]

\* strategy.parameters || {}
ParametersOrEmpty(parameters) == IF parameters = "" THEN "{}" ELSE parameters

\* Which requests may fail now, and what is left of the budget afterwards.
FailChoices == IF faults > 0 THEN BOOLEAN ELSE {FALSE}

Spend(fails) == IF fails THEN faults - 1 ELSE faults

\* executeStrategy(typescriptCode, context) is called.
BeginCall(code, ctx) ==
    /\ pc' = "start"
    /\ src' = code
    /\ context' = ctx
    /\ contextObj' = ctx
    /\ calls' = <<>>
    /\ inv' = NoPromise
    /\ timer' = NoTimer
    /\ race' = NoPromise
    /\ order' = <<>>
    /\ caught' = NoError
    /\ awaited' = Undefined
    /\ result' = Undefined
    /\ returnedAt' = 0
    /\ UNCHANGED <<globals, now>>

\* The catch block of runStrategy.
RunCatch(d, error) ==
    LET errorMessage == ErrorMessage(error)
        logged == logStrategyEvent(d, strategy.id, "error",
                                   "Strategy error: " \o errorMessage, NoLogData, FALSE).db
    IN  /\ db' = updateStrategyStatus(logged, strategy.id, "error",
                                      Fields(FALSE, 0, TRUE, errorMessage), FALSE)
        /\ runResult' = HoldResult("Error: " \o errorMessage)
        /\ runPc' = "done"

\* await logStrategyEvent(strategy.id, 'info', 'Strategy evaluation started')
RunLogStart ==
    /\ runPc = "start"
    /\ \E fails \in FailChoices :
          LET out == logStrategyEvent(db, strategy.id, "info",
                                      "Strategy evaluation started", NoLogData, fails)
          IN  /\ faults' = Spend(fails)
              /\ IF out.thrown THEN RunCatch(out.db, out.error)
                 ELSE /\ db' = out.db
                      /\ runPc' = "fetch"
                      /\ UNCHANGED runResult
    /\ UNCHANGED <<strategy, candles, currentPrice, execVars>>

\* const candles = await fetchRecentCandles(strategy.asset), and the current
\* price taken from the last of them
RunFetchCandles ==
    /\ runPc = "fetch"
    /\ \E fails \in FailChoices :
          /\ faults' = Spend(fails)
          /\ candles' = fetchRecentCandles(db.market_data, strategy.asset, CandleLimit, ~fails)
    /\ currentPrice' = IF Len(candles') = 0 THEN currentPrice
                       ELSE candles'[Len(candles')].close
    /\ runPc' = IF Len(candles') = 0 THEN "noData" ELSE "position"
    /\ UNCHANGED <<strategy, db, runResult, execVars>>

\* No candles: the error is logged and the run returns a hold.
RunNoData ==
    /\ runPc = "noData"
    /\ \E fails \in FailChoices :
          LET out == logStrategyEvent(db, strategy.id, "error",
                                      "No candle data available", NoLogData, fails)
          IN  /\ faults' = Spend(fails)
              /\ IF out.thrown THEN RunCatch(out.db, out.error)
                 ELSE /\ db' = out.db
                      /\ runResult' = HoldResult("No data available")
                      /\ runPc' = "done"
    /\ UNCHANGED <<strategy, candles, currentPrice, execVars>>

\* The position is derived if a portfolio is linked, the context is built
\* and executeStrategy is called with it.
RunBuildContext ==
    /\ runPc = "position"
    /\ \E fails \in (IF strategy.portfolio_id = "" THEN {FALSE} ELSE FailChoices) :
          LET position ==
                  IF strategy.portfolio_id = "" THEN NullPosition
                  ELSE WithPnl(getCurrentPosition(db.trades, strategy.portfolio_id,
                                                  strategy.asset, ~fails),
                               currentPrice)
          IN  /\ faults' = Spend(fails)
              /\ BeginCall(strategy.typescript_code,
                           StrategyContext(candles, currentPrice, position,
                                           ParametersOrEmpty(strategy.parameters)))
    /\ runPc' = "execute"
    /\ UNCHANGED <<strategy, db, candles, currentPrice, runResult>>

\* executeStrategy has returned: await updateStrategyStatus(strategy.id,
\* strategy.status, { last_run_at, error_message: undefined })
RunUpdateStatus ==
    /\ runPc = "execute"
    /\ pc = "returned"
    /\ \E fails \in FailChoices :
          /\ faults' = Spend(fails)
          /\ db' = updateStrategyStatus(db, strategy.id, strategy.status,
                                        Fields(TRUE, now, FALSE, ""), fails)
    /\ runPc' = "log"
    /\ UNCHANGED <<strategy, candles, currentPrice, runResult, execVars>>

\* The log row of the evaluation.  position is the object the context
\* holds; executionTime is left out.
EvaluationLogData ==
    [signal |-> result.o.signal,
     currentPrice |-> currentPrice,
     indicators |-> result.o.indicators,
     position |-> [isNull |-> contextObj.position.isNull,
                   quantity |-> contextObj.position.quantity,
                   pnl |-> contextObj.position.pnl]]

EvaluationLogMessage ==
    "Strategy evaluated: " \o ToUpperCase(result.o.signal.s)
        \o (IF PrimFalsy(result.o.reason) THEN ""
            ELSE " - " \o PrimString(result.o.reason))

\* The evaluation is logged and the result returned.
RunLogResult ==
    /\ runPc = "log"
    /\ \E fails \in FailChoices :
          LET out == logStrategyEvent(db, strategy.id,
                                      IF result.o.signal = PStr("hold") THEN "info"
                                      ELSE "signal",
                                      EvaluationLogMessage, EvaluationLogData, fails)
          IN  /\ faults' = Spend(fails)
              /\ IF out.thrown THEN RunCatch(out.db, out.error)
                 ELSE /\ db' = out.db
                      /\ runResult' = result
                      /\ runPc' = "done"
    /\ UNCHANGED <<strategy, candles, currentPrice, execVars>>

(* Inputs of a run *)

RunSources ==
    { Source(TRUE, Diagnostics(1), TRUE, FallsThrough, {}, Spins),
      Source(TRUE, <<>>, FALSE, FallsThrough, {"evaluate"}, Spins),
      Source(TRUE, <<>>, TRUE, FallsThrough, {}, Spins),
      Source(TRUE, <<>>, TRUE, FallsThrough, {"evaluate"}, Spins),
      Source(TRUE, <<>>, TRUE, FallsThrough, {"evaluate"}, Throws(0, ErrorOf("boom"))),
      Source(TRUE, <<>>, TRUE, FallsThrough, {"evaluate"}, Returns(0, Obj(FullBuy))),
      Source(TRUE, <<>>, TRUE, FallsThrough, {"evaluate"},
             Returns(0, Obj(Signal(PStr("sell"))))),
      Source(TRUE, <<>>, TRUE, FallsThrough, {"evaluate"},
             Returns(0, Obj(Signal(PStr("hold"))))),
      Source(TRUE, <<>>, TRUE, FallsThrough, {"evaluate"},
             Beh("promise", 0, Obj(FullBuy), NoError, "resolve", TIMEOUT_MS - 1000)),
      Source(TRUE, <<>>, TRUE, FallsThrough, {"evaluate"},
             Beh("promise", 0, Undefined, NoError, "never", 0)) }
    \cup EffectSources

StrategyId == StrategyIdAt(1)

RunStrategies ==
    {Strategy(StrategyId, Asset, p, "running", code, "{\"period\":14}") :
        p \in {"", PortfolioId}, code \in RunSources}
    \cup {Strategy(StrategyId, Asset, PortfolioId, "running", code, "") :
            code \in EffectSources}

\* market_data: at most one row per (asset, timestamp)
MarketTables ==
    LET Own == [1..MaxCandles -> {0, 90, 100}]
    IN  {{MarketRow("btcusdt", t, own[t]) : t \in {u \in 1..MaxCandles : own[u] # 0}}
            \cup other : own \in Own,
                         other \in {{}, {MarketRow("ethusdt", MaxCandles + 1, 50)}}}

RunLedgers ==
    { <<>>,
      <<Trade(PortfolioId, Asset, "completed", "buy", 1, 100),
        Trade(PortfolioId, Asset, "completed", "buy", 1, 200)>>,
      <<Trade(PortfolioId, Asset, "completed", "buy", 2, 100),
        Trade(PortfolioId, Asset, "completed", "sell", 2, 150)>> }

Database(market_data, trades, strategy_logs, strategies, portfolios) ==
    [market_data |-> market_data, trades |-> trades, strategy_logs |-> strategy_logs,
     strategies |-> strategies, portfolios |-> portfolios]

RunIdle ==
    /\ runPc = "idle"
    /\ strategy = Strategy("", "", "", "", Source(TRUE, <<>>, TRUE, FallsThrough, {}, Spins), "")
    /\ db = Database({}, <<>>, <<>>, [i \in StrategyIds |-> StrategyRow("draft", "", 0, 0)], {})
    /\ faults = 0
    /\ candles = <<>>
    /\ currentPrice = 0
    /\ runResult = Undefined

RunInit ==
    /\ runPc = "start"
    /\ strategy \in RunStrategies
    /\ \E market \in MarketTables, ledger \in RunLedgers :
          db = Database(market, ledger, <<>>,
                        [i \in StrategyIds |->
                            IF i = strategy.id THEN StrategyRow(strategy.status, "", 0, 0)
                            ELSE StrategyRow("draft", "", 0, 0)],
                        {PortfolioId})
    /\ faults \in 0..MaxFaults
    /\ candles = <<>>
    /\ currentPrice = 0
    /\ runResult = Undefined

---------------------------------------------------------------------------
(* The cron handler (GET of the broker route): it fetches the running      *)
(* strategies, runs each with runStrategy and, for a signal with a linked  *)
(* portfolio, executes the trade.  catalog holds the columns of the        *)
(* strategies table that no step writes.  Quantities are counted in        *)
(* thousandths, so the default amount of 0.001 is 1.                       *)

DefaultAmount == 1

MaxCronFaults == 1
MaxCreates == 2
MaxStoreTime == 1
MaxSockets == 3
MaxRequests == 2

Response(status, processed) == [status |-> status, processed |-> processed]

NoResponse == Response(0, 0)

ResultEntry(strategyId, signal, success) ==
    [strategyId |-> strategyId, signal |-> signal, success |-> success]

\* A call of executeTrade: for which strategy, with which signal and
\* portfolio, and whether it inserted a trade.
TradeStep(strategyId, signal, portfolio_id, inserted) ==
    [strategyId |-> strategyId, signal |-> signal, portfolio_id |-> portfolio_id,
     inserted |-> inserted]

\* .from('strategies').select('*').eq('status', 'running')
RunningStrategies(rows, d) ==
    LET running == SelectSeq(rows, LAMBDA s : d.strategies[s.id].status = "running")
    IN  [i \in 1..Len(running) |-> [running[i] EXCEPT !.status = "running"]]

ShouldTrade_AnySignal(strategyResult, s) == s.portfolio_id # ""

\* result.signal !== 'hold' && strategy.portfolio_id
ShouldTrade(strategyResult, s) ==
    strategyResult.o.signal # PStr("hold") /\ s.portfolio_id # ""

\* The trades table accepts a row whose type is buy or sell and whose
\* amounts are numbers.
TradeAccepted(strategyResult) ==
    /\ strategyResult.o.signal \in {PStr("buy"), PStr("sell")}
    /\ PrimFalsy(strategyResult.o.amount) \/ strategyResult.o.amount.t = "number"

\* result.amount || 0.001
TradeAmount(strategyResult) ==
    IF PrimFalsy(strategyResult.o.amount) THEN DefaultAmount
    ELSE strategyResult.o.amount.n

\* .eq('asset', strategy.asset).order('timestamp', { ascending: false }).limit(1)
LatestCandle(table, asset) == Limit(NewestFirst({r \in table : r.asset = asset}), 1)

\* Which of the requests of a step fail, within the budget.
FailSets(requests) == {f \in SUBSET requests : Cardinality(f) <= faults}

\* The handler moves on to the next strategy of the loop.
NextIteration ==
    /\ queue' = Tail(queue)
    /\ cronPc' = "loop"

\* The request is checked and the running strategies are fetched.
CronStart ==
    /\ cronPc = "start"
    /\ \E authorized \in BOOLEAN, fails \in FailChoices :
          /\ faults' = Spend(authorized /\ fails)
          /\ IF ~authorized
             THEN /\ response' = Response(401, 0)
                  /\ cronPc' = "done"
                  /\ UNCHANGED <<fetched, queue>>
             ELSE IF fails
             THEN /\ response' = Response(500, 0)
                  /\ cronPc' = "done"
                  /\ UNCHANGED <<fetched, queue>>
             ELSE IF RunningStrategies(catalog, db) = <<>>
             THEN /\ response' = Response(200, 0)
                  /\ cronPc' = "done"
                  /\ UNCHANGED <<fetched, queue>>
             ELSE /\ fetched' = RunningStrategies(catalog, db)
                  /\ queue' = fetched'
                  /\ cronPc' = "loop"
                  /\ UNCHANGED response
    /\ UNCHANGED <<catalog, results, tradeSteps, tradePrice>>
    /\ UNCHANGED <<runPc, strategy, db, candles, currentPrice, runResult, execVars>>

\* for (const strategy of strategies): runStrategy(strategy) is called.
CronRunStrategy ==
    /\ cronPc = "loop"
    /\ queue # <<>>
    /\ cronPc' = "run"
    /\ strategy' = Head(queue)
    /\ runPc' = "start"
    /\ candles' = <<>>
    /\ currentPrice' = 0
    /\ runResult' = Undefined
    /\ pc' = "idle"
    /\ UNCHANGED <<src, context, contextObj, globals, now, calls, inv, timer, race, order,
                   caught, awaited, result, returnedAt>>
    /\ UNCHANGED <<catalog, fetched, queue, results, tradeSteps, tradePrice, response, db, faults>>

\* runStrategy has returned: the result is recorded, and executeTrade is
\* called for a signal with a linked portfolio.
CronAfterRun ==
    /\ cronPc = "run"
    /\ runPc = "done"
    /\ results' = Append(results, ResultEntry(strategy.id, runResult.o.signal, TRUE))
    /\ IF ShouldTrade(runResult, strategy)
       THEN /\ tradeSteps' = Append(tradeSteps,
                                    TradeStep(strategy.id, runResult.o.signal,
                                              strategy.portfolio_id, FALSE))
            /\ cronPc' = "portfolio"
            /\ UNCHANGED queue
       ELSE /\ NextIteration
            /\ UNCHANGED tradeSteps
    /\ UNCHANGED <<catalog, fetched, tradePrice, response, runVars, execVars>>

\* executeTrade: without a portfolio it returns at once; else the portfolio
\* is fetched, and a missing one is logged.
TradeFetchPortfolio ==
    /\ cronPc = "portfolio"
    /\ IF strategy.portfolio_id = ""
       THEN /\ NextIteration
            /\ UNCHANGED <<db, faults>>
       ELSE \E failing \in FailSets({"select", "log"}) :
               /\ faults' = faults - Cardinality(failing)
               /\ IF "select" \notin failing /\ strategy.portfolio_id \in db.portfolios
                  THEN /\ cronPc' = "price"
                       /\ UNCHANGED <<db, queue>>
                  ELSE /\ db' = logStrategyEvent(db, strategy.id, "error",
                                                 "Portfolio not found", NoLogData,
                                                 "log" \in failing).db
                       /\ NextIteration
    /\ UNCHANGED <<catalog, fetched, results, tradeSteps, tradePrice, response>>
    /\ UNCHANGED <<runPc, strategy, candles, currentPrice, runResult, execVars>>

\* executeTrade: the close of the latest candle of strategy.asset.
TradeFetchPrice ==
    /\ cronPc = "price"
    /\ \E failing \in FailSets({"select", "log"}) :
          /\ faults' = faults - Cardinality(failing)
          /\ IF "select" \notin failing /\ LatestCandle(db.market_data, strategy.asset) # <<>>
             THEN /\ tradePrice' =
                        ParseFloat(LatestCandle(db.market_data, strategy.asset)[1].close)
                  /\ cronPc' = "insert"
                  /\ UNCHANGED <<db, queue>>
             ELSE /\ db' = logStrategyEvent(db, strategy.id, "error",
                                            "Could not get current price", NoLogData,
                                            "log" \in failing).db
                  /\ NextIteration
                  /\ UNCHANGED tradePrice
    /\ UNCHANGED <<catalog, fetched, results, tradeSteps, response>>
    /\ UNCHANGED <<runPc, strategy, candles, currentPrice, runResult, execVars>>

\* executeTrade: the trade is inserted; then last_signal_at is written and
\* the trade is logged.  A refused insert is logged instead.
TradeInsert ==
    /\ cronPc = "insert"
    /\ \E failing \in FailSets({"insert", "update", "log"}) :
          /\ faults' = faults - Cardinality(failing)
          /\ IF "insert" \notin failing /\ TradeAccepted(runResult)
             THEN LET traded ==
                          [db EXCEPT !.trades =
                              Append(@, Trade(strategy.portfolio_id, strategy.asset,
                                              "completed", runResult.o.signal.s,
                                              TradeAmount(runResult), tradePrice))]
                      signalled ==
                          IF "update" \in failing THEN traded
                          ELSE [traded EXCEPT !.strategies[strategy.id].last_signal_at = now]
                  IN  /\ db' = logStrategyEvent(signalled, strategy.id, "trade",
                                                "Executed "
                                                    \o ToUpperCase(runResult.o.signal.s),
                                                NoLogData, "log" \in failing).db
                      /\ tradeSteps' =
                            [tradeSteps EXCEPT ![Len(tradeSteps)].inserted = TRUE]
             ELSE /\ db' = logStrategyEvent(db, strategy.id, "error",
                                            "Trade execution failed", NoLogData,
                                            "log" \in failing).db
                  /\ UNCHANGED tradeSteps
    /\ NextIteration
    /\ UNCHANGED <<catalog, fetched, results, tradePrice, response>>
    /\ UNCHANGED <<runPc, strategy, candles, currentPrice, runResult, execVars>>

\* The loop is over: the handler answers.
CronFinish ==
    /\ cronPc = "loop"
    /\ queue = <<>>
    /\ response' = Response(200, Len(fetched))
    /\ cronPc' = "done"
    /\ UNCHANGED <<catalog, fetched, queue, results, tradeSteps, tradePrice, runVars, execVars>>

(* Inputs of the cron handler *)

Buys == Source(TRUE, <<>>, TRUE, FallsThrough, {"evaluate"}, Returns(0, Obj(FullBuy)))

\* function evaluate(ctx) { return { signal: 'sell', amount: -0.005 } }
SellsNegative ==
    Source(TRUE, <<>>, TRUE, FallsThrough, {"evaluate"},
           Returns(0, Obj([Signal(PStr("sell")) EXCEPT !.amount = PNum(0 - 5)])))

CronSources ==
    { Source(TRUE, Diagnostics(1), TRUE, FallsThrough, {}, Spins),
      Source(TRUE, <<>>, FALSE, FallsThrough, {"evaluate"}, Spins),
      Source(TRUE, <<>>, TRUE, FallsThrough, {}, Spins),
      Source(TRUE, <<>>, TRUE, FallsThrough, {"evaluate"}, Spins),
      Source(TRUE, <<>>, TRUE, FallsThrough, {"evaluate"}, Throws(0, ErrorOf("boom"))),
      Buys,
      WithEffect(Buys, "plant"),
      Source(TRUE, <<>>, TRUE, FallsThrough, {"evaluate"},
             Returns(0, Obj(Signal(PStr("sell"))))),
      Source(TRUE, <<>>, TRUE, FallsThrough, {"evaluate"},
             Returns(0, Obj(Signal(PStr("hold"))))),
      SellsNegative,
      Source(TRUE, <<>>, TRUE, FallsThrough, {"strategy"},
             Beh("promise", 0, Obj(FullBuy), NoError, "resolve", TIMEOUT_MS - 1000)),
      Source(TRUE, <<>>, TRUE, FallsThrough, {"evaluate"},
             Beh("promise", 0, Undefined, NoError, "never", 0)) }

CronStrategies(id) ==
    {Strategy(id, "btcusdt", p, "running", code, "{}") :
        p \in {"", PortfolioId}, code \in CronSources}
    \cup {Strategy(id, "BTCUSDT", PortfolioId, "running", Buys, "{}"),
          Strategy(id, "btcusdt", PortfolioId, "paused", Buys, "{}")}

RECURSIVE Catalogs(_)
Catalogs(n) ==
    IF n = 0 THEN {<<>>}
    ELSE Catalogs(n - 1)
         \cup {Append(c, s) : c \in {d \in Catalogs(n - 1) : Len(d) = n - 1},
                              s \in CronStrategies(StrategyIdAt(n))}

\* The status column of the strategy with this id.
CatalogStatus(rows, id) ==
    IF \E k \in DOMAIN rows : rows[k].id = id
    THEN rows[CHOOSE k \in DOMAIN rows : rows[k].id = id].status
    ELSE "draft"

CronMarkets == {{}, {MarketRow("btcusdt", 1, 100), MarketRow("btcusdt", 2, 90)}}

CronIdle ==
    /\ cronPc = "idle"
    /\ catalog = <<>>
    /\ fetched = <<>>
    /\ queue = <<>>
    /\ results = <<>>
    /\ tradeSteps = <<>>
    /\ tradePrice = 0
    /\ response = NoResponse

CronInit ==
    /\ cronPc = "start"
    /\ catalog \in Catalogs(MaxStrategies)
    /\ fetched = <<>>
    /\ queue = <<>>
    /\ results = <<>>
    /\ tradeSteps = <<>>
    /\ tradePrice = 0
    /\ response = NoResponse
    /\ runPc = "idle"
    /\ strategy = Strategy("", "", "", "", Source(TRUE, <<>>, TRUE, FallsThrough, {}, Spins), "")
    /\ \E market \in CronMarkets, portfolios \in {{}, {PortfolioId}} :
          db = Database(market, <<>>, <<>>,
                        [i \in StrategyIds |-> StrategyRow(CatalogStatus(catalog, i), "", 0, 0)],
                        portfolios)
    /\ faults \in 0..MaxCronFaults
    /\ candles = <<>>
    /\ currentPrice = 0
    /\ runResult = Undefined

---------------------------------------------------------------------------
(* The in-memory execution store: lib/internal/execution-store.ts *)

\* Identifiers are texts: sequences of characters.
DeploymentPrefix == <<"d", "e", "p", "-">>
OrderPrefix == <<"o", "r", "d", "-">>
LivePrefix == <<"l", "i", "v", "e", "-">>
LiveOrderPrefix == <<"l", "i", "v", "e", "-", "o", "r", "d", "e", "r", "-">>

\* String.prototype.padStart(width, fill) with a one-character fill
RECURSIVE PadStart(_, _, _)
PadStart(text, width, fill) ==
    IF Len(text) >= width THEN text ELSE PadStart(<<fill>> \o text, width, fill)

\* String.prototype.replace(/^prefix/, '')
StripPrefix(text, prefix) ==
    IF StartsWith(text, prefix) THEN SubSeq(text, Len(prefix) + 1, Len(text)) ELSE text

\* A Map is its entries in insertion order.
MapEntry(key, value) == [key |-> key, value |-> value]

MapIndex(map, key) ==
    IF \E i \in DOMAIN map : map[i].key = key
    THEN CHOOSE i \in DOMAIN map : map[i].key = key
    ELSE 0

\* Map.prototype.set: a present key keeps its place and takes the new value.
MapSet(map, key, value) ==
    IF MapIndex(map, key) = 0
    THEN Append(map, MapEntry(key, value))
    ELSE [map EXCEPT ![MapIndex(map, key)] = MapEntry(key, value)]

\* The first index at or after i whose value satisfies the provider reference; 0 if none.
RECURSIVE FirstWithRef(_, _, _, _)
FirstWithRef(map, field, identifier, i) ==
    IF i > Len(map) THEN 0
    ELSE IF map[i].value[field] = identifier THEN i
    ELSE FirstWithRef(map, field, identifier, i + 1)

Deployment(id, strategyId, mode, status, providerRefId, createdAt, updatedAt) ==
    [id |-> id, strategyId |-> strategyId, mode |-> mode, status |-> status,
     providerRefId |-> providerRefId, createdAt |-> createdAt, updatedAt |-> updatedAt]

StoreOrder(id, providerOrderId, side, status, deploymentId) ==
    [id |-> id, providerOrderId |-> providerOrderId, side |-> side, status |-> status,
     deploymentId |-> deploymentId]

DeploymentStatuses == {"queued", "running", "paused", "stopping", "stopped", "failed"}
OrderStatuses == {"pending", "filled", "cancelled", "rejected", "failed"}

SeedDeploymentId == DeploymentPrefix \o <<"0", "0", "1">>
SeedOrderId == OrderPrefix \o <<"0", "0", "1">>

SeedDeployments ==
    <<MapEntry(SeedDeploymentId,
               Deployment(SeedDeploymentId, "strat-001", "paper", "running",
                          LivePrefix \o SeedDeploymentId, 0, 0))>>

SeedOrders ==
    <<MapEntry(SeedOrderId,
               StoreOrder(SeedOrderId, LiveOrderPrefix \o <<"0", "0", "1">>, "buy", "pending",
                          SeedDeploymentId))>>

\* The id nextDeploymentId returns and the counter it leaves.
nextDeploymentId_Reuse(counter) ==
    [id |-> DeploymentPrefix \o PadStart(DecimalText(counter), 3, "0"), counter |-> counter]

nextDeploymentId(counter) ==
    [id |-> DeploymentPrefix \o PadStart(DecimalText(counter), 3, "0"), counter |-> counter + 1]

nextOrderId(counter) ==
    [id |-> OrderPrefix \o PadStart(DecimalText(counter), 3, "0"), counter |-> counter + 1]

nextProviderOrderId(orderId) == LiveOrderPrefix \o StripPrefix(orderId, OrderPrefix)

\* The index of the entry found, 0 for null.
findDeployment(map, identifier) ==
    IF MapIndex(map, identifier) # 0 THEN MapIndex(map, identifier)
    ELSE FirstWithRef(map, "providerRefId", identifier, 1)

findOrder_ByIdOnly(map, identifier) == MapIndex(map, identifier)

findOrder(map, identifier) ==
    IF MapIndex(map, identifier) # 0 THEN MapIndex(map, identifier)
    ELSE FirstWithRef(map, "providerOrderId", identifier, 1)

mapStopTransition_Restart(current) ==
    IF current = "stopped" \/ current = "failed" THEN current
    ELSE IF current = "stopping" THEN "running"
    ELSE "stopping"

mapStopTransition(current) ==
    IF current = "stopped" \/ current = "failed" THEN current ELSE "stopping"

mapCancelTransition_Always(current) == "cancelled"

mapCancelTransition(current) ==
    IF current = "filled" \/ current = "cancelled" \/ current = "rejected" \/ current = "failed"
    THEN current
    ELSE "cancelled"

getDeployment(map, identifier) ==
    IF findDeployment(map, identifier) = 0 THEN Null
    ELSE map[findDeployment(map, identifier)].value

getOrder(map, identifier) ==
    IF findOrder(map, identifier) = 0 THEN Null
    ELSE map[findOrder(map, identifier)].value

StoreCall(op, arg, returned) == [op |-> op, arg |-> arg, returned |-> returned]

NothingIssued == [deployments |-> {}, orders |-> {}]

\* seedStore(): the state of the module once it is loaded
SeedStore ==
    /\ deployments' = SeedDeployments
    /\ orders' = SeedOrders
    /\ deploymentCounter' = 2
    /\ orderCounter' = 2

\* Inputs
StoreTimes == 1..MaxStoreTime
DeploymentInputs == {[strategyId |-> "strat-002", mode |-> m] : m \in {"paper", "live"}}
OrderInputs ==
    {[side |-> "buy", deploymentId |-> SeedDeploymentId], [side |-> "sell", deploymentId |-> <<>>]}
\* The numbers of the ids the store can hold.
StoreNumbers == 1..(1 + MaxCreates)
DeploymentIdentifiers ==
    UNION {{nextDeploymentId(n).id, LivePrefix \o nextDeploymentId(n).id} : n \in StoreNumbers}
OrderIdentifiers ==
    UNION {{nextOrderId(n).id, nextProviderOrderId(nextOrderId(n).id)} : n \in StoreNumbers}
StoreIdentifiers == DeploymentIdentifiers \cup OrderIdentifiers

CreateDeployment ==
    /\ deploymentCounter < 2 + MaxCreates
    /\ \E input \in DeploymentInputs, t \in StoreTimes :
          LET next == nextDeploymentId(deploymentCounter)
              deployment == Deployment(next.id, input.strategyId, input.mode, "queued",
                                       LivePrefix \o next.id, t, t)
          IN  /\ deploymentCounter' = next.counter
              /\ deployments' = MapSet(deployments, next.id, deployment)
              /\ issued' = [issued EXCEPT !.deployments = @ \cup {deployment}]
              /\ storeCall' = StoreCall("createDeployment", input, deployment)
    /\ UNCHANGED <<orderCounter, orders>>

GetDeployment ==
    /\ \E identifier \in StoreIdentifiers :
          storeCall' = StoreCall("getDeployment", identifier,
                                 getDeployment(deployments, identifier))
    /\ UNCHANGED <<deploymentCounter, orderCounter, deployments, orders, issued>>

StopDeployment ==
    /\ \E identifier \in StoreIdentifiers, t \in StoreTimes :
          LET i == findDeployment(deployments, identifier)
              stopped == [deployments[i].value EXCEPT
                              !.status = mapStopTransition(@), !.updatedAt = t]
          IN  IF i = 0
              THEN /\ storeCall' = StoreCall("stopDeployment", identifier, Null)
                   /\ UNCHANGED deployments
              ELSE /\ deployments' = [deployments EXCEPT ![i].value = stopped]
                   /\ storeCall' = StoreCall("stopDeployment", identifier, stopped)
    /\ UNCHANGED <<deploymentCounter, orderCounter, orders, issued>>

PlaceOrder ==
    /\ orderCounter < 2 + MaxCreates
    /\ \E input \in OrderInputs :
          LET next == nextOrderId(orderCounter)
              placed == StoreOrder(next.id, nextProviderOrderId(next.id), input.side, "pending",
                                   input.deploymentId)
          IN  /\ orderCounter' = next.counter
              /\ orders' = MapSet(orders, next.id, placed)
              /\ issued' = [issued EXCEPT !.orders = @ \cup {placed}]
              /\ storeCall' = StoreCall("placeOrder", input, placed)
    /\ UNCHANGED <<deploymentCounter, deployments>>

GetOrder ==
    /\ \E identifier \in StoreIdentifiers :
          storeCall' = StoreCall("getOrder", identifier, getOrder(orders, identifier))
    /\ UNCHANGED <<deploymentCounter, orderCounter, deployments, orders, issued>>

CancelOrder ==
    /\ \E identifier \in StoreIdentifiers :
          LET i == findOrder(orders, identifier)
              cancelled == [orders[i].value EXCEPT !.status = mapCancelTransition(@)]
          IN  IF i = 0
              THEN /\ storeCall' = StoreCall("cancelOrder", identifier, Null)
                   /\ UNCHANGED orders
              ELSE /\ orders' = [orders EXCEPT ![i].value = cancelled]
                   /\ storeCall' = StoreCall("cancelOrder", identifier, cancelled)
    /\ UNCHANGED <<deploymentCounter, orderCounter, deployments, issued>>

ResetExecutionStore ==
    /\ SeedStore
    /\ issued' = NothingIssued
    /\ storeCall' = StoreCall("resetExecutionStore", Null, Null)

StoreIdle ==
    /\ deploymentCounter = 2
    /\ orderCounter = 2
    /\ deployments = SeedDeployments
    /\ orders = SeedOrders
    /\ issued = NothingIssued
    /\ storeCall = StoreCall("load", Null, Null)


---------------------------------------------------------------------------
(* PATCH /api/strategies: the owner updates a strategy.  The request names *)
(* the strategy and, in its updates, may carry a status.                   *)

NoStatus == ""

PatchRequest(id, status, owner) == [id |-> id, status |-> status, owner |-> owner]

PatchRequests ==
    {PatchRequest(id, status, owner) :
        id \in StrategyIds, status \in {NoStatus, "paused"}, owner \in BOOLEAN}

\* .select('id').eq('id', id).eq('user_id', userId).single(); no row or a failed
\* request leaves `existing` null and the answer is 404.
PatchVerify ==
    /\ patchPc = "start"
    /\ \E fails \in FailChoices :
          /\ faults' = Spend(fails)
          /\ IF fails \/ ~patchRequest.owner
             THEN patchPc' = "done" /\ patchResponse' = 404
             ELSE patchPc' = "update" /\ UNCHANGED patchResponse
    /\ UNCHANGED <<patchRequest, db>>

\* .update({ ...updates, updated_at }).eq('id', id).select().single()
PatchUpdate ==
    /\ patchPc = "update"
    /\ \E fails \in FailChoices :
          /\ faults' = Spend(fails)
          /\ IF fails
             THEN patchResponse' = 500 /\ UNCHANGED db
             ELSE /\ patchResponse' = 200
                  /\ db' = IF patchRequest.status = NoStatus THEN db
                           ELSE [db EXCEPT !.strategies[patchRequest.id].status =
                                              patchRequest.status]
    /\ patchPc' = "done"
    /\ UNCHANGED patchRequest

PatchIdle ==
    /\ patchPc = "idle"
    /\ patchRequest = PatchRequest("", NoStatus, FALSE)
    /\ patchResponse = 0

PauseSources ==
    { Source(TRUE, <<>>, FALSE, FallsThrough, {"evaluate"}, Spins),
      Source(TRUE, <<>>, TRUE, FallsThrough, {"evaluate"}, Spins),
      Source(TRUE, <<>>, TRUE, FallsThrough, {"evaluate"}, Returns(0, Obj(FullBuy))),
      Source(TRUE, <<>>, TRUE, FallsThrough, {"evaluate"},
             Returns(0, Obj(Signal(PStr("hold"))))),
      Source(TRUE, <<>>, TRUE, FallsThrough, {"evaluate"}, Throws(0, ErrorOf("boom"))),
      Source(TRUE, <<>>, TRUE, FallsThrough, {"evaluate"},
             Beh("promise", 0, Obj(FullBuy), NoError, "resolve", TIMEOUT_MS - 1000)) }

\* A cron run has fetched a running strategy and calls runStrategy with it, and a PATCH
\* request is on its way.
PauseInit ==
    /\ runPc = "start"
    /\ strategy \in {Strategy(StrategyId, Asset, PortfolioId, "running", code, "") :
                        code \in PauseSources}
    /\ \E market \in MarketTables :
          db = Database(market, <<>>, <<>>,
                        [i \in StrategyIds |->
                            IF i = strategy.id THEN StrategyRow(strategy.status, "", 0, 0)
                            ELSE StrategyRow("draft", "", 0, 0)],
                        {PortfolioId})
    /\ faults \in 0..MaxCronFaults
    /\ candles = <<>>
    /\ currentPrice = 0
    /\ runResult = Undefined
    /\ patchPc = "start"
    /\ patchRequest \in PatchRequests
    /\ patchResponse = 0

---------------------------------------------------------------------------
(* The Binance WebSocket client (lib/binance.ts) and the /api/websocket    *)
(* route.  sockets holds every WebSocket the client created, in order; a   *)
(* socket's handlers are closures over the client, so they run for a       *)
(* socket the client no longer refers to as well.  A heartbeat timer is    *)
(* named after the socket whose 'open' handler started it.                 *)

Socket(state, origin, afterDisconnect) ==
    [state |-> state, origin |-> origin, afterDisconnect |-> afterDisconnect]

NoClient == [exists |-> FALSE, assets |-> <<>>]

\* getBinanceWSClient(assets): the first call constructs the client.
getBinanceWSClient(current, assets) ==
    IF current.exists THEN current ELSE [exists |-> TRUE, assets |-> assets]

DefaultAssets == <<"btcusdt", "ethusdt">>

\* connect(): this.ws = new WebSocket(url), with the four handlers attached
connect(origin) ==
    /\ sockets' = Append(sockets, Socket("connecting", origin, disconnected))
    /\ ws' = Len(sockets) + 1

\* stopHeartbeat(): the timer whose handle the client holds is cleared
stopHeartbeat ==
    /\ heartbeats' = heartbeats \ {heartbeatInterval}
    /\ heartbeatInterval' = 0

\* The bodies of the POST requests: assets is an array or it is not.
WsBodies ==
    {[isArray |-> TRUE, assets |-> a] : a \in {<<"btcusdt">>, DefaultAssets}}
    \cup {[isArray |-> FALSE, assets |-> <<>>]}

\* POST /api/websocket
WsPost ==
    /\ Len(sockets) < MaxSockets
    /\ \E body \in WsBodies :
          IF ~body.isArray
          THEN /\ wsAnswer' = 400
               /\ UNCHANGED <<client, ws, sockets, disconnected>>
          ELSE /\ client' = getBinanceWSClient(client, body.assets)
               /\ connect("connect")
               /\ disconnected' = FALSE
               /\ wsAnswer' = 200
    /\ UNCHANGED <<heartbeatInterval, heartbeats, reconnects, pinged>>

\* The 'open' handler of socket i: startHeartbeat()
SocketOpens ==
    \E i \in DOMAIN sockets :
        /\ sockets[i].state = "connecting"
        /\ sockets' = [sockets EXCEPT ![i].state = "open"]
        /\ heartbeats' = heartbeats \cup {i}
        /\ heartbeatInterval' = i
        /\ UNCHANGED <<client, ws, reconnects, disconnected, pinged, wsAnswer>>

\* The 'close' handler of socket i, after the connection failed, the server closed it
\* or the closing the client asked for completed.
SocketCloses ==
    \E i \in DOMAIN sockets :
        /\ sockets[i].state \in {"connecting", "open", "closing"}
        /\ sockets' = [sockets EXCEPT ![i].state = "closed"]
        /\ stopHeartbeat
        /\ reconnects' = reconnects + 1
        /\ UNCHANGED <<client, ws, disconnected, pinged, wsAnswer>>

\* The callback of setTimeout(() => this.connect(), this.reconnectInterval)
ReconnectFires ==
    /\ reconnects > 0
    /\ Len(sockets) < MaxSockets
    /\ reconnects' = reconnects - 1
    /\ connect("reconnect")
    /\ UNCHANGED <<client, heartbeatInterval, heartbeats, disconnected, pinged, wsAnswer>>

\* The callback of a heartbeat timer: a ping if the client's socket is open
HeartbeatFires ==
    /\ \E h \in heartbeats :
          pinged' = IF ws # 0 /\ sockets[ws].state = "open" THEN pinged \cup {ws} ELSE pinged
    /\ UNCHANGED <<client, ws, sockets, heartbeatInterval, heartbeats, reconnects, disconnected,
                   wsAnswer>>

\* DELETE /api/websocket: getBinanceWSClient().disconnect()
WsDelete ==
    /\ client' = getBinanceWSClient(client, DefaultAssets)
    /\ stopHeartbeat
    /\ IF ws # 0
       THEN /\ sockets' = [sockets EXCEPT ![ws].state =
                              IF @ \in {"connecting", "open"} THEN "closing" ELSE @]
            /\ ws' = 0
       ELSE UNCHANGED <<ws, sockets>>
    /\ disconnected' = TRUE
    /\ wsAnswer' = 200
    /\ UNCHANGED <<reconnects, pinged>>

WsIdle ==
    /\ client = NoClient
    /\ ws = 0
    /\ sockets = <<>>
    /\ heartbeatInterval = 0
    /\ heartbeats = {}
    /\ reconnects = 0
    /\ disconnected = FALSE
    /\ pinged = {}
    /\ wsAnswer = 0

---------------------------------------------------------------------------
(* Paper trading: the execute_trade action of POST /api/paper.  Each       *)
(* request is at one of its awaits; amounts, prices and balances are whole *)
(* numbers.  The trades table either has the columns this handler writes   *)
(* (side, amount, status 'filled') or is the one of the repository's       *)
(* migration, which refuses the row.                                       *)

PaperTrade(side, type, amount, price) ==
    [side |-> side, type |-> type, amount |-> amount, price |-> price]

\* price 0 stands for a trade without price
PaperTrades ==
    { PaperTrade("buy", "market", 6, 0), PaperTrade("buy", "market", 15, 0),
      PaperTrade("sell", "market", 6, 0), PaperTrade("buy", "limit", 6, 5) }

PaperRequest(at, trade) ==
    [pc |-> at, trade |-> trade, balance |-> 0, totalCost |-> 0, newBalance |-> 0,
     answer |-> 0]

PaperRequestIds == 1..MaxRequests

\* trade.type === 'market' ? tickData.price : trade.price || tickData.price
ExecutionPrice(trade, tickPrice) ==
    IF trade.type = "market" THEN tickPrice
    ELSE IF trade.price = 0 THEN tickPrice ELSE trade.price

NewBalance(side, balance, totalCost) ==
    IF side = "buy" THEN balance - totalCost ELSE balance + totalCost

\* A request fails within the budget of failing requests.
PaperFails == IF paperFaults > 0 THEN BOOLEAN ELSE {FALSE}

\* .from('portfolios').select('*').eq('id', portfolioId).eq('user_id', userId).single()
PaperFetchPortfolio(r) ==
    /\ paperRequests[r].pc = "start"
    /\ \E fails \in PaperFails :
          /\ paperFaults' = IF fails THEN paperFaults - 1 ELSE paperFaults
          /\ paperRequests' =
                [paperRequests EXCEPT ![r] =
                    IF fails THEN [@ EXCEPT !.pc = "done", !.answer = 500]
                    ELSE [@ EXCEPT !.pc = "tick", !.balance = paperBalance]]
    /\ UNCHANGED <<paperBalance, paperLedger, paperStart, paperTick, paperSchema>>

\* getCachedMarketTick, the execution price, the total cost and the balance check
PaperPrice(r) ==
    /\ paperRequests[r].pc = "tick"
    /\ LET request == paperRequests[r]
           totalCost == request.trade.amount * ExecutionPrice(request.trade, paperTick)
       IN  paperRequests' =
              [paperRequests EXCEPT ![r] =
                  IF paperTick = 0 THEN [@ EXCEPT !.pc = "done", !.answer = 400]
                  ELSE IF request.trade.side = "buy" /\ totalCost > request.balance
                  THEN [@ EXCEPT !.pc = "done", !.answer = 400, !.totalCost = totalCost]
                  ELSE [@ EXCEPT !.pc = "insert", !.totalCost = totalCost,
                                 !.newBalance =
                                    NewBalance(request.trade.side, request.balance,
                                               totalCost)]]
    /\ UNCHANGED <<paperBalance, paperLedger, paperFaults, paperStart, paperTick,
                   paperSchema>>

\* .from('trades').insert({...}).select().single()
PaperInsert(r) ==
    /\ paperRequests[r].pc = "insert"
    /\ \E fails \in PaperFails :
          /\ paperFaults' = IF fails THEN paperFaults - 1 ELSE paperFaults
          /\ IF fails \/ paperSchema = "migration"
             THEN /\ paperRequests' =
                        [paperRequests EXCEPT ![r] = [@ EXCEPT !.pc = "done", !.answer = 500]]
                  /\ UNCHANGED paperLedger
             ELSE /\ paperRequests' = [paperRequests EXCEPT ![r].pc = "update"]
                  /\ paperLedger' =
                        Append(paperLedger,
                               [by |-> r, side |-> paperRequests[r].trade.side,
                                total |-> paperRequests[r].totalCost])
    /\ UNCHANGED <<paperBalance, paperStart, paperTick, paperSchema>>

\* .from('portfolios').update({ balance: newBalance }).eq('id', portfolioId)
PaperUpdate(r) ==
    /\ paperRequests[r].pc = "update"
    /\ \E fails \in PaperFails :
          /\ paperFaults' = IF fails THEN paperFaults - 1 ELSE paperFaults
          /\ IF fails
             THEN /\ paperRequests' =
                        [paperRequests EXCEPT ![r] = [@ EXCEPT !.pc = "done", !.answer = 500]]
                  /\ UNCHANGED paperBalance
             ELSE /\ paperRequests' =
                        [paperRequests EXCEPT ![r] = [@ EXCEPT !.pc = "done", !.answer = 200]]
                  /\ paperBalance' = paperRequests[r].newBalance
    /\ UNCHANGED <<paperLedger, paperStart, paperTick, paperSchema>>

PaperIdle ==
    /\ paperBalance = 0
    /\ paperStart = 0
    /\ paperLedger = <<>>
    /\ paperRequests = [r \in PaperRequestIds |-> PaperRequest("idle", PaperTrade("", "", 0, 0))]
    /\ paperFaults = 0
    /\ paperTick = 0
    /\ paperSchema = ""

\* MaxRequests requests for one portfolio have arrived.
PaperInit ==
    /\ paperBalance \in {0, 100}
    /\ paperStart = paperBalance
    /\ paperLedger = <<>>
    /\ paperRequests \in [PaperRequestIds -> {PaperRequest("start", t) : t \in PaperTrades}]
    /\ paperFaults \in {0, 1}
    /\ paperTick \in {0, 10}
    /\ paperSchema \in {"migration", "handler"}

---------------------------------------------------------------------------
(* Specifications *)

RestIdle == StoreIdle /\ PatchIdle /\ WsIdle /\ PaperIdle

Init == ExecInit /\ SanIdle /\ PosIdle /\ RunIdle /\ CronIdle /\ RestIdle

Next ==
    \/ Transpile /\ UNCHANGED <<sanVars, posVars, runVars, cronVars, restVars>>
    \/ BuildFails /\ UNCHANGED <<sanVars, posVars, runVars, cronVars, restVars>>
    \/ InvokeSpins /\ UNCHANGED <<sanVars, posVars, runVars, cronVars, restVars>>
    \/ InvokeThrows /\ UNCHANGED <<sanVars, posVars, runVars, cronVars, restVars>>
    \/ InvokeReturns /\ UNCHANGED <<sanVars, posVars, runVars, cronVars, restVars>>
    \/ InvocationSettles /\ UNCHANGED <<sanVars, posVars, runVars, cronVars, restVars>>
    \/ TimerFires /\ UNCHANGED <<sanVars, posVars, runVars, cronVars, restVars>>
    \/ Resume /\ UNCHANGED <<sanVars, posVars, runVars, cronVars, restVars>>

Spec == Init /\ [][Next]_vars

\* The event loop runs every callback that is due.
FairSpec == Spec /\ WF_vars(Next)

SanSpecInit == ExecIdle /\ SanInit /\ PosIdle /\ RunIdle /\ CronIdle /\ RestIdle

SanNext ==
    \/ SanitizeOnce /\ UNCHANGED <<execVars, posVars, runVars, cronVars, restVars>>
    \/ SanitizeAgain /\ UNCHANGED <<execVars, posVars, runVars, cronVars, restVars>>

\* sanitizeForExecution applied to a text and to its own output.
SanSpec == SanSpecInit /\ [][SanNext]_vars

PosSpecInit == ExecIdle /\ SanIdle /\ PosInit /\ RunIdle /\ CronIdle /\ RestIdle

PosNext == DerivePosition /\ UNCHANGED <<execVars, sanVars, runVars, cronVars, restVars>>

\* getCurrentPosition applied to a trades table.
PosSpec == PosSpecInit /\ [][PosNext]_vars

RunSpecInit == ExecIdle /\ SanIdle /\ PosIdle /\ RunInit /\ CronIdle /\ RestIdle

\* The steps of executeStrategy leave runStrategy's variables alone.
RunNext ==
    \/ RunLogStart /\ UNCHANGED <<sanVars, posVars, cronVars, restVars>>
    \/ RunFetchCandles /\ UNCHANGED <<sanVars, posVars, cronVars, restVars>>
    \/ RunNoData /\ UNCHANGED <<sanVars, posVars, cronVars, restVars>>
    \/ RunBuildContext /\ UNCHANGED <<sanVars, posVars, cronVars, restVars>>
    \/ Transpile /\ UNCHANGED <<sanVars, posVars, runVars, cronVars, restVars>>
    \/ BuildFails /\ UNCHANGED <<sanVars, posVars, runVars, cronVars, restVars>>
    \/ InvokeSpins /\ UNCHANGED <<sanVars, posVars, runVars, cronVars, restVars>>
    \/ InvokeThrows /\ UNCHANGED <<sanVars, posVars, runVars, cronVars, restVars>>
    \/ InvokeReturns /\ UNCHANGED <<sanVars, posVars, runVars, cronVars, restVars>>
    \/ InvocationSettles /\ UNCHANGED <<sanVars, posVars, runVars, cronVars, restVars>>
    \/ TimerFires /\ UNCHANGED <<sanVars, posVars, runVars, cronVars, restVars>>
    \/ Resume /\ UNCHANGED <<sanVars, posVars, runVars, cronVars, restVars>>
    \/ RunUpdateStatus /\ UNCHANGED <<sanVars, posVars, cronVars, restVars>>
    \/ RunLogResult /\ UNCHANGED <<sanVars, posVars, cronVars, restVars>>

\* One call of runStrategy.
RunSpec == RunSpecInit /\ [][RunNext]_vars

CronSpecInit == ExecIdle /\ SanIdle /\ PosIdle /\ CronInit /\ RestIdle

CronNext ==
    \/ CronStart /\ UNCHANGED <<sanVars, posVars, restVars>>
    \/ CronRunStrategy /\ UNCHANGED <<sanVars, posVars, restVars>>
    \/ RunNext
    \/ CronAfterRun /\ UNCHANGED <<sanVars, posVars, restVars>>
    \/ TradeFetchPortfolio /\ UNCHANGED <<sanVars, posVars, restVars>>
    \/ TradeFetchPrice /\ UNCHANGED <<sanVars, posVars, restVars>>
    \/ TradeInsert /\ UNCHANGED <<sanVars, posVars, restVars>>
    \/ CronFinish /\ UNCHANGED <<sanVars, posVars, restVars>>

\* One run of the cron handler over the running strategies.
CronSpec == CronSpecInit /\ [][CronNext]_vars

\* The event loop runs every callback that is due.
CronFairSpec == CronSpec /\ WF_vars(CronNext)

StoreSpecInit ==
    /\ ExecIdle /\ SanIdle /\ PosIdle /\ RunIdle /\ CronIdle
    /\ StoreIdle /\ PatchIdle /\ WsIdle /\ PaperIdle

StoreNext ==
    \/ CreateDeployment /\ UNCHANGED <<execVars, sanVars, posVars, runVars, cronVars, patchVars, wsVars, paperVars>>
    \/ GetDeployment /\ UNCHANGED <<execVars, sanVars, posVars, runVars, cronVars, patchVars, wsVars, paperVars>>
    \/ StopDeployment /\ UNCHANGED <<execVars, sanVars, posVars, runVars, cronVars, patchVars, wsVars, paperVars>>
    \/ PlaceOrder /\ UNCHANGED <<execVars, sanVars, posVars, runVars, cronVars, patchVars, wsVars, paperVars>>
    \/ GetOrder /\ UNCHANGED <<execVars, sanVars, posVars, runVars, cronVars, patchVars, wsVars, paperVars>>
    \/ CancelOrder /\ UNCHANGED <<execVars, sanVars, posVars, runVars, cronVars, patchVars, wsVars, paperVars>>
    \/ ResetExecutionStore /\ UNCHANGED <<execVars, sanVars, posVars, runVars, cronVars, patchVars, wsVars, paperVars>>

\* Calls of the execution store's functions, in any order.
StoreSpec == StoreSpecInit /\ [][StoreNext]_vars

PauseSpecInit ==
    /\ ExecIdle /\ SanIdle /\ PosIdle /\ PauseInit /\ CronIdle
    /\ StoreIdle /\ WsIdle /\ PaperIdle

PauseNext ==
    \/ RunNext
    \/ PatchVerify
          /\ UNCHANGED <<runPc, strategy, candles, currentPrice, runResult>>
          /\ UNCHANGED <<execVars, sanVars, posVars, cronVars, storeVars, wsVars, paperVars>>
    \/ PatchUpdate
          /\ UNCHANGED <<runPc, strategy, candles, currentPrice, runResult>>
          /\ UNCHANGED <<execVars, sanVars, posVars, cronVars, storeVars, wsVars, paperVars>>

\* One call of runStrategy by the cron handler and one PATCH request, interleaved.
PauseSpec == PauseSpecInit /\ [][PauseNext]_vars

WsSpecInit ==
    /\ ExecIdle /\ SanIdle /\ PosIdle /\ RunIdle /\ CronIdle
    /\ StoreIdle /\ PatchIdle /\ WsIdle /\ PaperIdle

coreVars == <<execVars, sanVars, posVars, runVars, cronVars>>

WsNext ==
    \/ WsPost /\ UNCHANGED <<coreVars, storeVars, patchVars, paperVars>>
    \/ SocketOpens /\ UNCHANGED <<coreVars, storeVars, patchVars, paperVars>>
    \/ SocketCloses /\ UNCHANGED <<coreVars, storeVars, patchVars, paperVars>>
    \/ ReconnectFires /\ UNCHANGED <<coreVars, storeVars, patchVars, paperVars>>
    \/ HeartbeatFires /\ UNCHANGED <<coreVars, storeVars, patchVars, paperVars>>
    \/ WsDelete /\ UNCHANGED <<coreVars, storeVars, patchVars, paperVars>>

\* Requests to /api/websocket and the events of the client's sockets and timers.
WsSpec == WsSpecInit /\ [][WsNext]_vars

PaperSpecInit ==
    /\ ExecIdle /\ SanIdle /\ PosIdle /\ RunIdle /\ CronIdle
    /\ StoreIdle /\ PatchIdle /\ WsIdle /\ PaperInit

PaperNext ==
    \/ \E r \in PaperRequestIds :
          PaperFetchPortfolio(r) /\ UNCHANGED <<coreVars, storeVars, patchVars, wsVars>>
    \/ \E r \in PaperRequestIds :
          PaperPrice(r) /\ UNCHANGED <<coreVars, storeVars, patchVars, wsVars>>
    \/ \E r \in PaperRequestIds :
          PaperInsert(r) /\ UNCHANGED <<coreVars, storeVars, patchVars, wsVars>>
    \/ \E r \in PaperRequestIds :
          PaperUpdate(r) /\ UNCHANGED <<coreVars, storeVars, patchVars, wsVars>>

\* execute_trade requests for one portfolio, interleaved at their awaits.
PaperSpec == PaperSpecInit /\ [][PaperNext]_vars

---------------------------------------------------------------------------
(* Properties of executeStrategy *)

Returned == pc = "returned"

\* The source transpiled and the wrapped code parsed.
Normalized == src.tsLoads /\ Len(src.diags) = 0 /\ src.parses

\* strategyFn(context) was called and control reached the dispatcher.
DispatcherReached ==
    /\ pc \in {"spinning", "racing", "returned"}
    /\ Normalized
    /\ src.top.kind = "normal"

\* The await of the race produced a value (the catch block did not run).
AwaitFulfilled == Returned /\ race.state = "fulfilled" /\ ~caught.thrown

TimeoutHold == HoldResult("Execution error: Strategy execution timeout")

NonObject(v) == v.isNull \/ v.t \in {"undefined", "string", "number", "boolean"}

WellFormed(v) ==
    /\ v.t = "object"
    /\ ~v.isNull
    /\ v.o.signal \in {PStr("buy"), PStr("sell"), PStr("hold")}

(* C1: for every source and context the call completes by returning a      *)
(* StrategyResult: in every state the call has returned or some step of it *)
(* can still be taken (it is never left unable to return).                 *)
C1_AlwaysReturns == Returned \/ ENABLED Next

(* C2: the value returned by executeStrategy is an object whose signal is  *)
(* exactly one of 'buy', 'sell', 'hold', whatever the strategy code        *)
(* returned or threw.                                                      *)
C2_SignalEnumClosure == Returned => WellFormed(result)

C2_Witness ==
    /\ Returned
    /\ awaited.o.signal = PStr("moon")
    /\ result.o.signal = PStr("hold")

(* C3: whenever a step throws (transpilation, SyntaxError, no entry point, *)
(* the strategy body, the timeout), the catch block runs with the thrown   *)
(* value and the call returns signal 'hold' with reason                    *)
(* 'Execution error: ' + message, message being the thrown Error's         *)
(* message.                                                                *)
C3_ThrowBecomesHold ==
    /\ (Returned /\ caught.thrown) =>
          /\ result.o.signal = PStr("hold")
          /\ result.o.amount = PUndef
          /\ caught.isError => result.o.reason = PStr("Execution error: " \o caught.message)
    /\ (Returned /\ DispatcherReached /\ src.defs # {} /\ src.beh.kind = "throw") =>
          caught = src.beh.err
    /\ (Returned /\ DispatcherReached /\ src.defs = {}) => caught = NoEntryPoint
    /\ (Returned /\ ~Normalized) => caught.thrown

C3_Witness ==
    /\ Returned
    /\ calls # <<>>
    /\ caught = ErrorOf("boom")
    /\ result = HoldResult("Execution error: boom")

(* C4: when the dispatcher is reached it calls exactly one entry point,    *)
(* exactly once, with the context as its argument: tradingStrategy if it   *)
(* is a function, else evaluate if it is, else strategy if it is; if none  *)
(* is a function, nothing is called.                                       *)
C4_EntryPointPriority ==
    DispatcherReached =>
        calls = IF "tradingStrategy" \in src.defs
                    THEN <<[name |-> "tradingStrategy", arg |-> context]>>
                ELSE IF "evaluate" \in src.defs
                    THEN <<[name |-> "evaluate", arg |-> context]>>
                ELSE IF "strategy" \in src.defs
                    THEN <<[name |-> "strategy", arg |-> context]>>
                ELSE <<>>

C4_Witness ==
    /\ Returned
    /\ src.defs = {"tradingStrategy", "evaluate"}
    /\ calls = <<[name |-> "tradingStrategy", arg |-> context]>>

(* C5: a source that normalizes and defines none of the three entry points *)
(* never produces a buy or sell result: the call returns 'hold'.           *)
C5_NoEntryPointNeverTrades ==
    (Returned /\ Normalized /\ src.defs = {}) => result.o.signal = PStr("hold")

(* C6: when the value the invocation produced is not an object (string,    *)
(* number, boolean, undefined, null), the call returns                     *)
(* {signal:'hold', reason:'Invalid strategy result'}.                      *)
C6_NonObjectIsInvalidResult ==
    (AwaitFulfilled /\ NonObject(awaited)) =>
        result = HoldResult("Invalid strategy result")

C6_Witness ==
    /\ AwaitFulfilled
    /\ awaited = Str("buy")
    /\ result = HoldResult("Invalid strategy result")

(* C7: when the value the invocation produced is an object whose signal is *)
(* not one of 'buy', 'sell', 'hold' (absent, another string, a             *)
(* non-string), the call returns {signal:'hold', reason:'Invalid signal    *)
(* value'}.                                                                *)
C7_BadSignalIsInvalidSignal ==
    (AwaitFulfilled /\ awaited.t = "object" /\ ~awaited.isNull /\ ~WellFormed(awaited)) =>
        result = HoldResult("Invalid signal value")

C7_Witness ==
    /\ AwaitFulfilled
    /\ awaited = Obj(Signal(PStr("moon")))
    /\ result = HoldResult("Invalid signal value")

(* C8: when the value the invocation produced is a well-formed object, the *)
(* call returns that object with every field unchanged.                    *)
C8_WellFormedPassesThrough ==
    (AwaitFulfilled /\ WellFormed(awaited)) => result = awaited

C8_Witness ==
    /\ AwaitFulfilled
    /\ awaited = Obj(FullBuy)
    /\ result.o.amount = PNum(1)
    /\ result.o.takeProfit = PNum(110)

(* C9: an entry point that busy-waits longer than the 5000 ms limit yields *)
(* the timeout 'hold' result, and the caller has it within the limit plus  *)
(* Epsilon.                                                                *)
C9_TimeoutBoundary ==
    (Returned /\ calls # <<>> /\ src.beh.busy > TIMEOUT_MS) =>
        /\ result = TimeoutHold
        /\ returnedAt <= TIMEOUT_MS + Epsilon

(* C10: the invocation is raced against the timer.  If the timer fires     *)
(* while the invocation has not settled (for instance its promise never    *)
(* settles), the call eventually returns the timeout 'hold' result; if the *)
(* invocation settles first, the value it fulfilled with is the one        *)
(* validated; and once the call has returned, a timer firing later does    *)
(* not change the result.                                                  *)
C10_TimeoutRace ==
    /\ (pc = "racing" /\ inv.state = "pending" /\ ~inv.settles)
          ~> (Returned /\ result = TimeoutHold)
    /\ (Len(order) > 0 /\ order[1] = "timer") ~> (Returned /\ result = TimeoutHold)
    /\ []((Returned /\ Len(order) > 0 /\ order[1] = "invocation" /\ inv.state = "fulfilled")
            => (awaited = inv.value /\ ~caught.thrown))
    /\ [][Returned => result' = result]_vars

C10_Witness ==
    /\ Returned
    /\ inv.state = "pending"
    /\ ~inv.settles
    /\ timer.state = "fired"
    /\ result = TimeoutHold

\* C17: evaluating a strategy leaves the global object of the host process
\* as it was, and the result carries nothing of process.env.
C17_SandboxIsolation ==
    /\ globals = FreshGlobals
    /\ Returned => result.o.reason # PStr(ServiceRoleKey)

---------------------------------------------------------------------------
(* Properties of sanitizeForExecution *)

IsIdentChar(c) ==
    c \in {"a", "c", "d", "e", "f", "i", "l", "m", "n", "o", "p", "r", "s", "t", "u",
           "v", "x", "y"}

\* The line begins, after leading whitespace, with the keyword kw.
BeginsWithKeyword(line, kw) ==
    LET t == TrimStart(line)
    IN  /\ StartsWith(t, kw)
        /\ Len(t) = Len(kw) \/ ~IsIdentChar(t[Len(kw) + 1])

(* C11: sanitizeForExecution is idempotent: applied to its own output it   *)
(* returns the same text.                                                  *)
C11_SanitizeIdempotent == sanPc = "twice" => sanOut2 = sanOut

(* C12: no line of the output of sanitizeForExecution begins, after        *)
(* leading whitespace, with the keyword import or export.                  *)
C12_NoImportExportLine ==
    sanPc # "input" =>
        \A i \in 1..Len(SplitLines(sanOut, <<>>)) :
            /\ ~BeginsWithKeyword(SplitLines(sanOut, <<>>)[i], cImport)
            /\ ~BeginsWithKeyword(SplitLines(sanOut, <<>>)[i], cExport)

---------------------------------------------------------------------------
(* Properties of getCurrentPosition *)

RECURSIVE SumOf(_, _, _)
SumOf(trades, type, field) ==
    IF trades = <<>> THEN 0
    ELSE (IF trades[1].type = type THEN field[trades[1]] ELSE 0)
         + SumOf(Tail(trades), type, field)

QuantityOf == [r \in TradeRows |-> ParseFloat(r.quantity)]

TotalOf == [r \in TradeRows |-> ParseFloat(r.total)]

Ledger == SelectCompletedTrades(posTrades, PortfolioId, Asset)

NetQuantity == SumOf(Ledger, "buy", QuantityOf) - SumOf(Ledger, "sell", QuantityOf)

NetCost == SumOf(Ledger, "buy", TotalOf) - SumOf(Ledger, "sell", TotalOf)

Buy(q, p) == Trade(PortfolioId, Asset, "completed", "buy", q, p)

Sell(q, p) == Trade(PortfolioId, Asset, "completed", "sell", q, p)

\* C14: when the trades query answers, the position derived from the
\* completed trades of (portfolio, asset) is absent exactly when there are
\* no such trades or the buy quantities minus the sell quantities are <= 0;
\* otherwise its quantity is that net quantity and its entry price is the
\* buy totals minus the sell totals, divided by the quantity.  The ledger
\* [buy 1 @ 100, buy 1 @ 200] gives quantity 2 at entry price 150, and
\* [buy 2 @ 100, sell 2 @ 150] gives no position.
C14_PositionDerivation ==
    posPc = "done" /\ posAnswered =>
        /\ posResult.isNull <=> (Ledger = <<>> \/ NetQuantity <= 0)
        /\ ~posResult.isNull =>
              /\ posResult.quantity = NetQuantity
              /\ FEq(posResult.entry_price, Frac(NetCost, NetQuantity))
        /\ Ledger = <<Buy(1, 100), Buy(1, 200)>> =>
              /\ ~posResult.isNull
              /\ posResult.quantity = 2
              /\ FEq(posResult.entry_price, FromInt(150))
        /\ Ledger = <<Buy(2, 100), Sell(2, 150)>> => posResult.isNull

C14_Witness ==
    /\ posPc = "done" /\ posAnswered
    /\ Ledger = <<Buy(2, 100), Sell(2, 150)>>
    /\ posResult.isNull

---------------------------------------------------------------------------
(* Properties of runStrategy *)

\* executeStrategy was called in this run.
Invoked == pc # "idle"

RunDone == runPc = "done"

OwnMarketRows == {r \in db.market_data : r.asset = ToLowerCase(strategy.asset)}

IsMostRecent(r) == r \in OwnMarketRows /\ \A q \in OwnMarketRows : q.timestamp <= r.timestamp

\* C13: when fetchRecentCandles gives no candles, executeStrategy is not
\* called in that run and the run returns the hold with reason
\* 'No data available'; in every run that calls executeStrategy the
\* context's currentPrice is the close of the last candle, which is the
\* close of the most recent market_data row of the asset.
C13_NoDataHoldsWithoutSandbox ==
    /\ (runPc \in {"noData", "done"} /\ candles = <<>>) => ~Invoked
    /\ (RunDone /\ candles = <<>>) => runResult = HoldResult("No data available")
    /\ Invoked =>
          /\ context.candles # <<>>
          /\ context.currentPrice = context.candles[Len(context.candles)].close
          /\ \E r \in OwnMarketRows :
                IsMostRecent(r) /\ context.currentPrice = ParseFloat(r.close)

C13_Witness ==
    /\ RunDone /\ candles = <<>> /\ ~Invoked
    /\ runResult = HoldResult("No data available")

IsEvaluationLog(row) == row.level \in {"info", "signal"} /\ row.data.signal # PUndef

\* C15: once executeStrategy has been called, the context object is equal
\* to the context runStrategy built, and the position quantity and pnl of
\* the evaluation's log row are those of the position it built.
C15_ContextNeverMutated ==
    /\ Invoked => contextObj = context
    /\ \A i \in DOMAIN db.strategy_logs :
          IsEvaluationLog(db.strategy_logs[i]) =>
              db.strategy_logs[i].data.position =
                  [isNull |-> context.position.isNull,
                   quantity |-> context.position.quantity,
                   pnl |-> context.position.pnl]

\* A finished run writes two log rows when every insert succeeds.
LogInsertFailed == RunDone /\ Len(db.strategy_logs) < 2

\* C19: a run in which an insert into strategy_logs failed goes on past the
\* failed insert and returns what executeStrategy returned (or the
\* 'No data available' hold when it was not called); the persisted status
\* is the one the strategy had and no error_message is written.
C19_LogFailureSwallowed ==
    /\ (runPc = "fetch" /\ db.strategy_logs = <<>>) => ENABLED RunFetchCandles
    /\ LogInsertFailed =>
          /\ runResult = IF Invoked THEN result ELSE HoldResult("No data available")
          /\ db.strategies[strategy.id].status = strategy.status
          /\ db.strategies[strategy.id].error_message = ""

C19_Witness ==
    /\ LogInsertFailed
    /\ db.strategy_logs = <<>>
    /\ Invoked
    /\ runResult = Obj(FullBuy)

\* The strategy's entry point threw during the run.
StrategyCodeThrew ==
    /\ Invoked /\ calls # <<>> /\ src.beh.kind = "throw"
    /\ caught = src.beh.err

\* C20: when the strategy's code threw during the run, the persisted status
\* of the strategy is 'error' and its error_message is the message of the
\* exception.
C20_ThrowSetsErrorStatus ==
    (RunDone /\ StrategyCodeThrew) =>
        /\ db.strategies[strategy.id].status = "error"
        /\ db.strategies[strategy.id].error_message = ErrorMessage(caught)

---------------------------------------------------------------------------
(* Properties of the cron handler *)

\* The code settles within the synchronous call when it is run in a
\* process whose global object is untouched.
SettlesSynchronously(s, ctx) ==
    /\ s.tsLoads /\ s.diags = <<>> /\ s.parses
    /\ RunBody(s, ctx, FreshGlobals).beh.kind \in {"return", "throw"}

\* What executeStrategy returns for such code in such a process.
ResultAlone(s, ctx) ==
    LET body == RunBody(s, ctx, FreshGlobals)
    IN  IF body.beh.kind = "throw" THEN CatchResult(body.beh.err)
        ELSE ValidateResult(body.beh.value)

\* C16: the result of an evaluation is the one the same code gives on the
\* same context in a process where nothing was evaluated before.
C16_NoSharedState ==
    (Returned /\ SettlesSynchronously(src, context)) => result = ResultAlone(src, context)

ResultOf(strategyId) ==
    {results[k].signal : k \in {n \in DOMAIN results : results[n].strategyId = strategyId}}

\* C18: in a cron run, executeTrade is called for a strategy only when its
\* result's signal is not hold and it has a portfolio_id, at most once per
\* strategy; every row of the trades table was inserted by such a call, so
\* no row is inserted for a hold or for a strategy without portfolio, and
\* at most one per strategy.
C18_TradeOnlyOnSignalWithPortfolio ==
    /\ \A i \in DOMAIN tradeSteps :
          /\ tradeSteps[i].signal # PStr("hold")
          /\ tradeSteps[i].portfolio_id # ""
          /\ ResultOf(tradeSteps[i].strategyId) = {tradeSteps[i].signal}
          /\ \A j \in DOMAIN tradeSteps :
                tradeSteps[j].strategyId = tradeSteps[i].strategyId => i = j
    /\ Len(db.trades) = Cardinality({i \in DOMAIN tradeSteps : tradeSteps[i].inserted})
    /\ \A k \in DOMAIN db.trades :
          db.trades[k].type \in {"buy", "sell"} /\ db.trades[k].portfolio_id # ""

C18_Witness ==
    /\ cronPc = "done"
    /\ Len(results) = 2
    /\ results[1].signal = PStr("hold")
    /\ results[2].signal = PStr("buy")
    /\ Len(db.trades) = 1

StrategyIdsOf(rows) == [i \in DOMAIN rows |-> rows[i].id]

ResultIds == [i \in DOMAIN results |-> results[i].strategyId]

\* The strategies already recorded and those still to come are the fetched
\* ones, in order; while executeTrade runs, the head of the queue is recorded.
ProcessedInOrder ==
    /\ cronPc \in {"loop", "run"} =>
          ResultIds \o StrategyIdsOf(queue) = StrategyIdsOf(fetched)
    /\ cronPc \in {"portfolio", "price", "insert"} =>
          /\ queue # <<>>
          /\ ResultIds \o StrategyIdsOf(Tail(queue)) = StrategyIdsOf(fetched)
    /\ (cronPc = "done" /\ fetched # <<>>) =>
          /\ ResultIds = StrategyIdsOf(fetched)
          /\ response = Response(200, Len(fetched))
    /\ runPc \notin {"idle", "done"} => cronPc = "run"

\* C21: in a cron run the fetched strategies are processed one at a time
\* in order, each recorded once; a run that has fetched strategies comes to
\* its answer, whose results hold one entry per fetched strategy and whose
\* processed is their number.
C21_EveryStrategyOnce ==
    /\ []ProcessedInOrder
    /\ (cronPc = "loop") ~> (cronPc = "done")

---------------------------------------------------------------------------
(* Properties of the execution store *)

\* The text after the four characters of an id's prefix.
NumericSuffix(id) == SubSeq(id, 5, Len(id))

FoundBothWays(map, find(_, _), id, reference) ==
    /\ find(map, id) # 0
    /\ map[find(map, id)].value.id = id
    /\ find(map, reference) # 0
    /\ map[find(map, reference)].value.id = id

\* C22: every deployment returned by createDeployment and every order returned by
\* placeOrder since the last reset is found by getDeployment / getOrder under its id
\* and under its provider reference, both giving the record with that id; an order's
\* providerOrderId is 'live-order-' followed by the numeric suffix of its id, and the
\* first order after a reset gets 'live-order-002'.
C22_DualKeyLookup ==
    /\ \A d \in issued.deployments :
          /\ FoundBothWays(deployments, findDeployment, d.id, d.providerRefId)
          /\ getDeployment(deployments, d.id).id = d.id
          /\ getDeployment(deployments, d.providerRefId).id = d.id
    /\ \A o \in issued.orders :
          /\ FoundBothWays(orders, findOrder, o.id, o.providerOrderId)
          /\ getOrder(orders, o.id).id = o.id
          /\ getOrder(orders, o.providerOrderId).id = o.id
          /\ o.providerOrderId = LiveOrderPrefix \o NumericSuffix(o.id)
    /\ (storeCall.op = "placeOrder" /\ Cardinality(issued.orders) = 1)
          => storeCall.returned.providerOrderId = LiveOrderPrefix \o <<"0", "0", "2">>

\* getOrder answered a provider reference with the order placeOrder returned.
C22_Witness ==
    /\ storeCall.op = "getOrder"
    /\ \E o \in issued.orders :
          /\ storeCall.arg = o.providerOrderId
          /\ storeCall.returned.id = o.id
    /\ \E d \in issued.deployments :
          getDeployment(deployments, d.providerRefId).id = d.id

StopTarget(status) == IF status \in {"stopped", "failed"} THEN status ELSE "stopping"

\* What a step that is not a reset does to the deployment at place i of the Map.
DeploymentStep(i) ==
    LET before == deployments[i].value
        after == deployments'[i].value
    IN  /\ i \in DOMAIN deployments'
        /\ after.id = before.id
        /\ before.status = "stopping" => after.status = "stopping"
        /\ (storeCall'.op = "stopDeployment" /\ storeCall'.arg \in {before.id, before.providerRefId})
              => /\ after.status = StopTarget(before.status)
                 /\ storeCall'.returned.status = StopTarget(before.status)
        /\ ~(storeCall'.op = "stopDeployment" /\ storeCall'.arg \in {before.id, before.providerRefId})
              => after.status = before.status

\* C23: createDeployment returns a deployment with status 'queued'; stopDeployment, given
\* the id or the providerRefId, sets a deployment that is neither 'stopped' nor 'failed'
\* to 'stopping' and leaves a 'stopped' or 'failed' one as it is; stopping twice gives
\* what stopping once gives; and no call other than a reset of the store takes a
\* 'stopping' deployment to another status.
C23_DeploymentLifecycle ==
    /\ [](/\ storeCall.op = "createDeployment" => storeCall.returned.status = "queued"
          /\ \A s \in DeploymentStatuses :
                /\ mapStopTransition(s) = StopTarget(s)
                /\ mapStopTransition(mapStopTransition(s)) = mapStopTransition(s))
    /\ [][storeCall'.op # "resetExecutionStore"
             => \A i \in DOMAIN deployments : DeploymentStep(i)]_vars

\* stopDeployment, given a providerRefId, answered 'stopping' for a created deployment.
C23_Witness ==
    /\ storeCall.op = "stopDeployment"
    /\ \E d \in issued.deployments :
          /\ d.status = "queued"
          /\ storeCall.arg = d.providerRefId
          /\ storeCall.returned.id = d.id
          /\ storeCall.returned.status = "stopping"
          /\ getDeployment(deployments, d.id).status = "stopping"

CancelTarget(status) == IF status = "pending" THEN "cancelled" ELSE status

\* What a step that is not a reset does to the order at place i of the Map.
OrderStep(i) ==
    LET before == orders[i].value
        after == orders'[i].value
        cancels == storeCall'.op = "cancelOrder"
                      /\ storeCall'.arg \in {before.id, before.providerOrderId}
    IN  /\ i \in DOMAIN orders'
        /\ after.id = before.id
        /\ cancels => /\ after.status = CancelTarget(before.status)
                      /\ storeCall'.returned.status = CancelTarget(before.status)
        /\ ~cancels => after.status = before.status
        /\ before.status = "cancelled" => after.status = "cancelled"

\* C24: placeOrder returns an order with status 'pending'; cancelling takes 'pending' to
\* 'cancelled' and each of 'filled', 'cancelled', 'rejected', 'failed' to itself;
\* cancelling twice gives what cancelling once gives, for the mapping and for cancelOrder
\* on a stored order, given its id or its providerOrderId.
C24_OrderLifecycle ==
    /\ [](/\ storeCall.op = "placeOrder" => storeCall.returned.status = "pending"
          /\ \A s \in OrderStatuses :
                /\ mapCancelTransition(s) = CancelTarget(s)
                /\ mapCancelTransition(mapCancelTransition(s)) = mapCancelTransition(s))
    /\ [][storeCall'.op # "resetExecutionStore" => \A i \in DOMAIN orders : OrderStep(i)]_vars

\* cancelOrder answered 'cancelled' for an order that placeOrder returned as 'pending'.
C24_Witness ==
    /\ storeCall.op = "cancelOrder"
    /\ \E o \in issued.orders :
          /\ o.status = "pending"
          /\ storeCall.arg \in {o.id, o.providerOrderId}
          /\ storeCall.returned.id = o.id
          /\ storeCall.returned.status = "cancelled"
          /\ getOrder(orders, o.providerOrderId).status = "cancelled"

Distinct(map, field) ==
    \A i, j \in DOMAIN map : i # j => map[i].value[field] # map[j].value[field]

\* A creating call appends one entry and leaves the entries the Map had.
Appends(before, after) ==
    /\ Len(after) = Len(before) + 1
    /\ \A i \in DOMAIN before :
          /\ after[i].key = before[i].key
          /\ after[i].value = before[i].value
    /\ \A i \in DOMAIN before : before[i].key # after[Len(after)].key

\* C27: in every state reached by calls of createDeployment, placeOrder, stopDeployment,
\* cancelOrder and resetExecutionStore, the ids of the stored deployments are pairwise
\* distinct and so are their providerRefIds, and likewise the ids and providerOrderIds of
\* the stored orders; a creating call adds a record under a key the store did not hold
\* and changes no stored record, the seeded dep-001 and ord-001 included; and a reset
\* leaves the seeded records alone in the store with both counters at 2, so that the
\* next ids are dep-002 and ord-002.
C27_IdentifierFreshness ==
    /\ [](/\ Distinct(deployments, "id") /\ Distinct(deployments, "providerRefId")
          /\ Distinct(orders, "id") /\ Distinct(orders, "providerOrderId")
          /\ \A i \in DOMAIN deployments : deployments[i].key = deployments[i].value.id
          /\ \A i \in DOMAIN orders : orders[i].key = orders[i].value.id
          /\ deployments[1].value.id = SeedDeploymentId
          /\ deployments[1].value.strategyId = "strat-001"
          /\ orders[1].value.id = SeedOrderId
          /\ orders[1].value.deploymentId = SeedDeploymentId
          /\ storeCall.op = "resetExecutionStore"
                => /\ deployments = SeedDeployments /\ orders = SeedOrders
                   /\ deploymentCounter = 2 /\ orderCounter = 2
                   /\ nextDeploymentId(deploymentCounter).id = DeploymentPrefix \o <<"0", "0", "2">>
                   /\ nextOrderId(orderCounter).id = OrderPrefix \o <<"0", "0", "2">>)
    /\ [][/\ storeCall'.op = "createDeployment" => Appends(deployments, deployments')
          /\ storeCall'.op = "placeOrder" => Appends(orders, orders')]_vars

\* Two deployments and two orders were created beside the seeded ones, and the first of
\* each was stopped / cancelled before the last creation.
C27_Witness ==
    /\ storeCall.op \in {"createDeployment", "placeOrder"}
    /\ Len(deployments) = 3
    /\ Len(orders) = 3
    /\ deploymentCounter = 4
    /\ orderCounter = 4
    /\ deployments[2].value.status = "stopping"
    /\ orders[2].value.status = "cancelled"

---------------------------------------------------------------------------
(* Properties of the amounts traded *)

PositiveAmount(amount) == amount.t = "number" /\ amount.n > 0

\* C25: a result returned by executeStrategy has no amount or a positive number as
\* amount, and every row of the trades table has a positive quantity.
C25_AmountPositive ==
    /\ pc = "returned" => (result.o.amount = PUndef \/ PositiveAmount(result.o.amount))
    /\ \A i \in DOMAIN db.trades : ParseFloat(db.trades[i].quantity) > 0

---------------------------------------------------------------------------
(* Properties of a run beside a PATCH request *)

\* runStrategy returned the result of executeStrategy: the cycle did not fail.
CycleSucceeded == RunDone /\ Invoked /\ pc = "returned" /\ runResult = result

Paused ==
    /\ patchPc = "done"
    /\ patchResponse = 200
    /\ patchRequest.id = strategy.id
    /\ patchRequest.status = "paused"

\* C26: when a PATCH request has set the strategy to 'paused' and the run of runStrategy
\* that was given the strategy as 'running' has completed without failing, the persisted
\* status of the strategy is 'paused'.
C26_PauseSurvivesRun ==
    (CycleSucceeded /\ Paused) => db.strategies[strategy.id].status = "paused"

---------------------------------------------------------------------------
(* Properties of the WebSocket client *)

\* C28: while disconnect() is the last request made of the client, the client creates no
\* socket: every socket was created by a requested connect(), or by a reconnect timer
\* at a time when disconnect() had not been requested since the last requested connect().
C28_NoReconnectAfterDisconnect ==
    \A i \in DOMAIN sockets : sockets[i].origin = "reconnect" => ~sockets[i].afterDisconnect

LiveSockets == {i \in DOMAIN sockets : sockets[i].state = "open"}

\* C29: at most one socket of the client is open and at most one heartbeat timer is set.
C29_SingleSocketAndHeartbeat ==
    /\ Cardinality(LiveSockets) <= 1
    /\ Cardinality(heartbeats) <= 1

---------------------------------------------------------------------------
(* Properties of paper trading *)

RECURSIVE LedgerEffect(_)
LedgerEffect(rows) ==
    IF rows = <<>> THEN 0
    ELSE LedgerEffect(Tail(rows))
            + (IF Head(rows).side = "buy" THEN 0 - Head(rows).total ELSE Head(rows).total)

AllAnswered == \A r \in PaperRequestIds : paperRequests[r].pc = "done"

RejectedForBalance(r) ==
    /\ paperRequests[r].answer = 400
    /\ paperTick # 0
    /\ paperRequests[r].totalCost > paperRequests[r].balance

====
